---- MODULE Spec2Model ----
(***************************************************************************)
(* AI Career Advisor: the React client (ApiService, OnboardingQuestionnaire,*)
(* AIChat, Dashboard) and the questionnaire -> assessment -> recommendation *)
(* pipeline of the backend it talks to.  The backend's code is not among    *)
(* the client's source files; its operators are written from the design     *)
(* document (sections 3, 4, 5, 6).                                          *)
(*                                                                          *)
(* Trait scores are fixed-point numbers in units of 1/Scale: 0.5 is 500,    *)
(* 1.0 is 1000.  A text (an error message, a detail string) is a sequence   *)
(* of string tokens, <<>> being the empty string.                           *)
(***************************************************************************)
EXTENDS Integers, Sequences, FiniteSets, TLC

VARIABLES
    \* backend: submission requests, the assessment store, the write log
    srvReqs, store, writeLog,
    \* OnboardingQuestionnaire component state (useState hooks)
    userId, questions, responses, currentQuestionIndex, isLoading,
    isSubmitting, error,
    \* OnboardingQuestionnaire: requests in flight and the onComplete callback
    loadCalls, submitCall, completed,
    \* history: what each settled submit call of the component gave its caller,
    \* and the value most recently entered for each question
    submitLog, lastGiven,
    \* backend: the conversation records
    convs,
    \* AIChat component state (isLoading is chatIsLoading, error is chatError)
    messages, inputMessage, chatIsLoading, isLoadingHistory, chatError,
    \* AIChat: calls in flight, the number of messages sent, and history: the
    \* reply each settled chat call had got
    chatCalls, historyCalls, sendCount, chatLog,
    \* Recommendation Composer: its inputs and the list it returned
    recAssessment, recTable, recN, recOut,
    \* backend: the user profiles
    profiles,
    \* ApiService profile calls in flight, and history: what each settled call
    \* had got from the backend and gave its caller
    apiCalls, apiLog,
    \* Dashboard component state (isLoading is dashIsLoading, error is
    \* dashError), its userId prop and whether its fetch is in flight
    dashUser, dashData, dashIsLoading, dashError, showQuestionnaire, dashFetch,
    \* the backend's answer to each request of the dashboard's load
    dashReplies,
    \* CareerAnalysis component state (isRunning is caIsRunning, results is
    \* caResults, error is caError, recommendations is caRecs), its userId
    \* prop, the analysis request in flight and the recommendation loads in flight
    caUser, selectedAnalysis, caIsRunning, caResults, caError, caRecs, caCall, caRecCalls,
    \* App (auto-login): component state (isLoading is appIsLoading), the
    \* currentUserId key of localStorage, the ids generated so far and the
    \* router's location
    currentUser, appIsLoading, localStorage, idsMade, location,
    \* UserProfile component state (profile is upProfile, isLoading is
    \* upIsLoading, error is upError, success is upSuccess), whether its fetch is
    \* in flight, and the profile its save in flight was started with
    upProfile, editedProfile, isEditing, upIsLoading, isSaving, upError, upSuccess,
    upFetch, upSave,
    \* Analytics component state (isLoading is anIsLoading, error is anError),
    \* its requests in flight, the number of requests made, and history: the
    \* outcome of each settled request
    activeTab, trendsData, skillsData, predictionsData, anIsLoading, anError,
    selectedIndustry, selectedRole, skillsQuery, anCalls, anCount, anLog,
    \* Settings component state, whether its reset request is in flight, the
    \* number of reset requests made, history: the outcome of each, and
    \* whether the reload timer set on success is pending
    isResetting, resetStatus, showConfirmDialog, resetCall, resetCount, resetLog,
    reloadTimer,
    \* Login component state (isLoading is loginIsLoading, error is loginError)
    \* and whether its registration request is in flight
    isLogin, loginIsLoading, loginError, formData, regCall

backendVars == <<srvReqs, store, writeLog>>
qVars == <<userId, questions, responses, currentQuestionIndex, isLoading,
           isSubmitting, error, loadCalls, submitCall, completed, submitLog, lastGiven>>
chatVars == <<convs, messages, inputMessage, chatIsLoading, isLoadingHistory,
              chatError, chatCalls, historyCalls, sendCount, chatLog>>
recVars == <<recAssessment, recTable, recN, recOut>>
apiVars == <<profiles, apiCalls, apiLog>>
dashVars == <<dashUser, dashData, dashIsLoading, dashError, showQuestionnaire, dashFetch,
             dashReplies>>
caVars == <<caUser, selectedAnalysis, caIsRunning, caResults, caError, caRecs, caCall,
           caRecCalls>>
appVars == <<currentUser, appIsLoading, localStorage, idsMade, location>>
upVars == <<upProfile, editedProfile, isEditing, upIsLoading, isSaving, upError,
           upSuccess, upFetch, upSave>>
anVars == <<activeTab, trendsData, skillsData, predictionsData, anIsLoading, anError,
           selectedIndustry, selectedRole, skillsQuery, anCalls, anCount, anLog>>
setVars == <<isResetting, resetStatus, showConfirmDialog, resetCall, resetCount, resetLog,
            reloadTimer>>
loginVars == <<isLogin, loginIsLoading, loginError, formData, regCall>>
viewVars == <<upVars, anVars, setVars, loginVars>>
vars == <<backendVars, qVars, chatVars, recVars, apiVars, dashVars, caVars, appVars,
          viewVars>>

----------------------------------------------------------------------------
(* Bounds of the model *)

\* submission requests the backend receives in one behaviour
MaxReqs == 2
\* user ids the App generates in one behaviour
MaxIds == 8
MaxAnalytics == 3
MaxResets == 3
\* generate calls of one user the component has in flight at a time
MaxLoads == 1
\* chat messages sent in one behaviour
MaxSends == 2
\* history calls the chat has in flight at a time
MaxRefresh == 1
\* entries of a career-reference table
MaxTable == 3
\* profile calls made through ApiService in one behaviour
MaxApiCalls == 2

----------------------------------------------------------------------------
(* Values *)

Scale == 1000
Neutral == Scale \div 2

Users == {"u1", "u2"}

None == [kind |-> "none"]

\* A response value: a string (multiple choice, free text) or a number (scale).
Str(s) == [t |-> "str", s |-> s, n |-> 0]
Num(n) == [t |-> "num", s |-> "", n |-> n]
\* responses[id] of a key the object does not hold
Undefined == [t |-> "undefined", s |-> "", n |-> 0]

\* The fixed trait set: the Big Five and the six RIASEC interest categories.
PersonalityTraits ==
    <<"openness", "conscientiousness", "extraversion", "agreeableness", "neuroticism">>
InterestCodes ==
    <<"realistic", "investigative", "artistic", "social", "enterprising", "conventional">>
TraitOrder == PersonalityTraits \o InterestCodes
Traits == {TraitOrder[i] : i \in 1..Len(TraitOrder)}

Range(s) == {s[i] : i \in 1..Len(s)}

----------------------------------------------------------------------------
(* Static reference data of the backend: the question bank, the            *)
(* question -> trait weights and the option -> score table.                *)

Question(id, type, options, lo, hi, category, importance, required) ==
    [id |-> id, question_type |-> type, options |-> options,
     scale_min |-> lo, scale_max |-> hi, category |-> category,
     importance |-> importance, required |-> required]

Q1 == Question("q1", "multiple_choice", <<"Strongly Agree", "Agree", "Disagree">>,
               0, 0, "personality", 1, TRUE)
Q2 == Question("q2", "scale", <<>>, 1, 10, "personality", 1, TRUE)
Q3 == Question("q3", "text", <<>>, 0, 0, "career_goals", 1, FALSE)
Q4 == Question("q4", "scale", <<>>, 1, 5, "work_style", 2, TRUE)

QuestionBank == {Q1, Q2, Q3, Q4}
QIds == {q.id : q \in QuestionBank}

\* question id -> the traits it tags, each with its contribution weight
TraitWeight(qid, trait) ==
    CASE qid = "q1" /\ trait = "openness" -> 1
      [] qid = "q2" /\ trait = "openness" -> 1
      [] qid = "q4" /\ trait = "openness" -> 2
      [] qid = "q4" /\ trait = "conscientiousness" -> 1
      [] OTHER -> 0

\* the static option -> score table of the multiple-choice answers
OptionScores ==
    [o \in {"Strongly Agree", "Agree", "Disagree"} |->
        CASE o = "Strongly Agree" -> 900
          [] o = "Agree" -> 700
          [] OTHER -> 300]

\* Questionnaire Generator: an ordered sequence, tailored by the user's profile.
GenerateQuestions(u) ==
    IF u = "u1" THEN <<Q1, Q2, Q3>> ELSE <<Q3, Q4>>

----------------------------------------------------------------------------
(* Scoring Engine *)

\* whether a response counts in numeric scoring (free text does not)
Numeric(q, v) ==
    CASE q.question_type = "scale" -> v.t = "num"
      [] q.question_type = "multiple_choice" ->
            v.t = "str" /\ v.s \in DOMAIN OptionScores
      [] OTHER -> FALSE

\* a scale answer without the subtraction of the declared minimum
NormalizeNoOffset(q, v) ==
    CASE q.question_type = "scale" ->
            (v.n * Scale) \div (q.scale_max - q.scale_min)
      [] OTHER -> OptionScores[v.s]

\* a response's value in [0, Scale]: a scale answer linearly by the declared
\* min/max, a multiple-choice answer through the option table
Normalize(q, v) ==
    CASE q.question_type = "scale" ->
            ((v.n - q.scale_min) * Scale) \div (q.scale_max - q.scale_min)
      [] OTHER -> OptionScores[v.s]

\* the questions of the submission that contribute to a trait
Contributors(trait, qs, rs) ==
    {i \in 1..Len(qs) :
        /\ TraitWeight(qs[i].id, trait) > 0
        /\ rs[qs[i].id] # Undefined
        /\ Numeric(qs[i], rs[qs[i].id])}

RECURSIVE SumOver(_, _)
SumOver(S, f) ==
    IF S = {} THEN 0
    ELSE LET x == CHOOSE y \in S : TRUE
         IN f[x] + SumOver(S \ {x}, f)

\* a trait without contributing responses read as 0, the way a missing key is
TraitScoreZeroDefault(trait, qs, rs) ==
    LET C == Contributors(trait, qs, rs)
        w == [i \in C |-> TraitWeight(qs[i].id, trait)]
        wv == [i \in C |-> w[i] * Normalize(qs[i], rs[qs[i].id])]
    IN IF C = {} THEN 0 ELSE SumOver(C, wv) \div SumOver(C, w)

\* the last tagged response alone decides the trait: nothing is averaged
TraitScoreLastTagged(trait, qs, rs) ==
    LET C == Contributors(trait, qs, rs)
        last == CHOOSE i \in C : \A j \in C : j <= i
    IN IF C = {} THEN Neutral ELSE Normalize(qs[last], rs[qs[last].id])

\* the weighted average over the responses tagged with the trait; the neutral
\* midpoint when there is none
TraitScore(trait, qs, rs) ==
    LET C == Contributors(trait, qs, rs)
        w == [i \in C |-> TraitWeight(qs[i].id, trait)]
        wv == [i \in C |-> w[i] * Normalize(qs[i], rs[qs[i].id])]
    IN IF C = {} THEN Neutral ELSE SumOver(C, wv) \div SumOver(C, w)

ScoreTraits(qs, rs) == [t \in Traits |-> TraitScore(t, qs, rs)]

\* the narrative names the dominant trait (the first of the highest scores)
Narrative(traits) ==
    LET i == CHOOSE i \in 1..Len(TraitOrder) :
                /\ \A j \in 1..Len(TraitOrder) : traits[TraitOrder[j]] <= traits[TraitOrder[i]]
                /\ \A j \in 1..(i - 1) : traits[TraitOrder[j]] < traits[TraitOrder[i]]
    IN TraitOrder[i]

----------------------------------------------------------------------------
(* Submission Processor *)

\* only the last question of the sequence is looked at
MissingLastOnly(qs, rs) ==
    {i \in {Len(qs)} \ {0} : qs[i].required /\ rs[qs[i].id] = Undefined}

\* required questions of the sequence without a matching response
MissingResponses(qs, rs) ==
    {i \in 1..Len(qs) : qs[i].required /\ rs[qs[i].id] = Undefined}

ValidationError(qid) ==
    [kind |-> "error", status |-> 422,
     detail |-> <<"missing response for question", qid>>]

AssessmentResult(u, qs, rs, stamp) ==
    LET traits == ScoreTraits(qs, rs)
    IN [kind |-> "assessment", user_id |-> u, traits |-> traits,
        narrative |-> Narrative(traits), created |-> stamp]

\* validate, then score: a ValidationError naming the first missing question,
\* or the AssessmentResult
ProcessSubmission(u, qs, rs, stamp) ==
    LET missing == MissingResponses(qs, rs)
    IN IF missing # {}
       THEN ValidationError(qs[CHOOSE i \in missing : \A j \in missing : i <= j].id)
       ELSE AssessmentResult(u, qs, rs, stamp)

----------------------------------------------------------------------------
(* Backend: POST /api/questionnaire/submit/{user_id} and the keyed store   *)

\* the stored record is updated in place: its traits are set, the rest is kept
MergeRecords(old, new) ==
    IF old = None THEN new
    ELSE [old EXCEPT !.traits = new.traits]

\* put: the new record replaces the stored one whole
Supersede(old, new) == new

NoReply == [kind |-> "pending"]

Request(u, qs, rs) ==
    [user |-> u, questions |-> qs, responses |-> rs, stage |-> "received",
     result |-> None, seen |-> None, reply |-> NoReply]

\* the request is queued under the next id
Receive(u, qs, rs) ==
    /\ Len(srvReqs) < MaxReqs
    /\ srvReqs' = Append(srvReqs, Request(u, qs, rs))

\* the handler validates and scores, and reads the user's stored record
Handle(i) ==
    /\ i \in 1..Len(srvReqs)
    /\ srvReqs[i].stage = "received"
    /\ LET r == srvReqs[i]
           out == ProcessSubmission(r.user, r.questions, r.responses, i)
       IN srvReqs' =
            [srvReqs EXCEPT ![i] =
                IF out.kind = "error"
                THEN [r EXCEPT !.stage = "done", !.reply = out]
                ELSE [r EXCEPT !.stage = "scored", !.result = out,
                               !.seen = store[r.user]]]
    /\ UNCHANGED <<store, writeLog, qVars, chatVars, recVars, apiVars, dashVars, caVars, appVars, viewVars>>

\* the handler overwrites the user's record and answers 200
Persist(i) ==
    /\ i \in 1..Len(srvReqs)
    /\ srvReqs[i].stage = "scored"
    /\ LET r == srvReqs[i]
           rec == Supersede(store[r.user], r.result)
       IN /\ store' = [store EXCEPT ![r.user] = rec]
          /\ srvReqs' = [srvReqs EXCEPT ![i] =
                [r EXCEPT !.stage = "done",
                          !.reply = [kind |-> "ok", status |-> 200, analysis |-> rec]]]
    /\ writeLog' = Append(writeLog, i)
    /\ UNCHANGED <<qVars, chatVars, recVars, apiVars, dashVars, caVars, appVars, viewVars>>

InitBackend ==
    /\ srvReqs = <<>>
    /\ store = [u \in Users |-> None]
    /\ writeLog = <<>>

----------------------------------------------------------------------------
(* Clients of the submit endpoint other than the component below          *)

\* the answers a client can give to a question
AnswerChoices(q) ==
    CASE q.question_type = "scale" -> {Num(q.scale_min), Num(q.scale_max)}
      [] q.question_type = "multiple_choice" -> {Str(q.options[1])}
      [] OTHER -> {Str("free text")}

\* response sets over a question sequence: each question answered or left out
ResponseSets(qs) ==
    {rs \in [QIds -> {Undefined} \cup UNION {AnswerChoices(q) : q \in QuestionBank}] :
        \A id \in QIds :
            rs[id] # Undefined =>
                \E i \in 1..Len(qs) : qs[i].id = id /\ rs[id] \in AnswerChoices(qs[i])}

\* a client posts the sequence it was issued with a response set
Post(u, rs) ==
    /\ Receive(u, GenerateQuestions(u), rs)
    /\ UNCHANGED <<store, writeLog, qVars, chatVars, recVars, apiVars, dashVars, caVars, appVars, viewVars>>

\* the answers of a respondent to the two openness questions: any option of
\* q1, and low, middle, upper and top marks on q2's scale
ScaleMarks == {1, 5, 8, 10}

ScenarioAnswers ==
    {[id \in QIds |->
        CASE id = "q1" -> Str(o)
          [] id = "q2" -> Num(n)
          [] OTHER -> Undefined] : o \in Range(Q1.options), n \in ScaleMarks}

\* a respondent posts answers to the two openness questions
PostScenario(rs) ==
    /\ Receive("u1", <<Q1, Q2, Q3>>, rs)
    /\ UNCHANGED <<store, writeLog, qVars, chatVars, recVars, apiVars, dashVars, caVars, appVars, viewVars>>

----------------------------------------------------------------------------
(* ApiService: the questionnaire calls.  Neither has a catch: the promise  *)
(* rejects with the axios error when the backend answers an error status   *)
(* or the 10 s timeout expires.                                            *)

\* what the awaited call gives for a backend reply: the body of a 2xx reply
\* (response.data), or a rejection carrying the reply's detail
Resolved(data) == [kind |-> "resolved", value |-> data]
Rejected(detail) == [kind |-> "rejected", detail |-> detail]

\* a transport failure: no reply arrived (timeout, network error)
NoResponse == <<"timeout of 10000ms exceeded">>

\* ApiService.submitQuestionnaire with a catch that substitutes a result
ApiSubmitWithFallback(reply) ==
    IF reply.kind = "ok" THEN Resolved(reply)
    ELSE Resolved([kind |-> "ok", status |-> 200,
                   analysis |-> AssessmentResult("demo-user", <<>>,
                                                 [id \in QIds |-> Undefined], 0)])

\* ApiService.submitQuestionnaire: response.data, or the error thrown by axios
ApiSubmitQuestionnaire(reply) ==
    IF reply.kind = "ok" THEN Resolved(reply)
    ELSE IF reply.kind = "error" THEN Rejected(reply.detail)
    ELSE Rejected(NoResponse)

----------------------------------------------------------------------------
(* OnboardingQuestionnaire *)

LoadFailedText == <<"Failed to load questionnaire. Please try again.">>
SubmitFailedText == <<"Failed to submit questionnaire. Please try again.">>

Mounted == completed = None

\* the render gets past the loading, error and empty states to the question card
RenderReachesCard ==
    /\ Mounted
    /\ ~isLoading
    /\ error = <<>>
    /\ Len(questions) > 0

\* the question card is rendered: questions[currentQuestionIndex] is a
\* question (reading .id of undefined throws, and nothing is rendered)
QuestionsDisplayed ==
    /\ RenderReachesCard
    /\ currentQuestionIndex < Len(questions)

currentQuestion == questions[currentQuestionIndex + 1]
isLastQuestion == currentQuestionIndex = Len(questions) - 1
canProceed ==
    /\ responses[currentQuestion.id] # Undefined
    /\ responses[currentQuestion.id] # Str("")

\* the submit button is rendered and not disabled
SubmitEnabled == QuestionsDisplayed /\ isLastQuestion /\ canProceed /\ ~isSubmitting

\* what the user can enter in the rendered input of a question
InputChoices(q) ==
    CASE q.question_type = "scale" -> {Num(q.scale_max)}
      [] q.question_type = "multiple_choice" -> {Str(q.options[1]), Str(q.options[3])}
      [] OTHER -> {Str("free text"), Str("")}

\* the value the rendered input of a question shows: the checked option, the
\* slider at the response or at the middle of the scale, the textarea's text
DisplayedValue(q) ==
    IF responses[q.id] # Undefined /\ responses[q.id] # Str("") THEN responses[q.id]
    ELSE CASE q.question_type = "scale" -> Num((q.scale_max + q.scale_min) \div 2)
           [] q.question_type = "multiple_choice" -> responses[q.id]
           [] OTHER -> Str("")

\* Object.entries(responses): the keys the object holds
responseArray == responses

\* the entries of the array: one {question_id, response} for each key present
RECURSIVE EntriesOf(_, _)
EntriesOf(rs, ids) ==
    IF ids = <<>> THEN <<>>
    ELSE (IF rs[Head(ids)] = Undefined THEN <<>>
          ELSE <<[question_id |-> Head(ids), response |-> rs[Head(ids)]]>>)
         \o EntriesOf(rs, Tail(ids))

ResponseEntries == EntriesOf(responseArray, <<"q1", "q2", "q3", "q4">>)

\* a body that carries only the questions that have a response
submissionAnsweredOnly ==
    [questions |-> SelectSeq(questions, LAMBDA q : responses[q.id] # Undefined),
     responses |-> responseArray]

\* the body of the POST: { questions: questions, responses: responseArray }
submission == [questions |-> questions, responses |-> responseArray]

\* loadQuestionnaire up to its await: setIsLoading(true), the GET is sent
StartLoad(u) ==
    /\ loadCalls[u] < MaxLoads
    /\ isLoading' = TRUE
    /\ loadCalls' = [loadCalls EXCEPT ![u] = @ + 1]

\* the parent passes another userId: the effect runs loadQuestionnaire
ChangeUser(u) ==
    /\ Mounted
    /\ u # userId
    /\ userId' = u
    /\ StartLoad(u)
    /\ UNCHANGED <<lastGiven, questions, responses, currentQuestionIndex, isSubmitting,
                   error, submitCall, completed, submitLog, backendVars, chatVars, recVars, apiVars, dashVars, caVars, appVars, viewVars>>

\* the Try Again button of the error state
TryAgain ==
    /\ Mounted
    /\ ~isLoading
    /\ error # <<>>
    /\ StartLoad(userId)
    /\ UNCHANGED <<lastGiven, userId, questions, responses, currentQuestionIndex,
                   isSubmitting, error, submitCall, completed, submitLog, backendVars, chatVars, recVars, apiVars, dashVars, caVars, appVars, viewVars>>

\* loadQuestionnaire after its await: the generate call answered
LoadResolve(u) ==
    /\ Mounted
    /\ loadCalls[u] > 0
    /\ loadCalls' = [loadCalls EXCEPT ![u] = @ - 1]
    /\ questions' = GenerateQuestions(u)
    /\ isLoading' = FALSE
    /\ UNCHANGED <<lastGiven, userId, responses, currentQuestionIndex, isSubmitting,
                   error, submitCall, completed, submitLog, backendVars, chatVars, recVars, apiVars, dashVars, caVars, appVars, viewVars>>

\* a catch that sends the generate call again instead of giving up
LoadRejectRetrying(u) ==
    /\ Mounted
    /\ loadCalls[u] > 0
    /\ isLoading
    /\ error' = LoadFailedText
    /\ isLoading' = FALSE
    /\ UNCHANGED <<lastGiven, userId, questions, responses, currentQuestionIndex, loadCalls,
                   isSubmitting, submitCall, completed, submitLog, backendVars, chatVars, recVars, apiVars, dashVars, caVars, appVars, viewVars>>

\* loadQuestionnaire's catch: the generate call failed
LoadReject(u) ==
    /\ Mounted
    /\ loadCalls[u] > 0
    /\ loadCalls' = [loadCalls EXCEPT ![u] = @ - 1]
    /\ error' = LoadFailedText
    /\ isLoading' = FALSE
    /\ UNCHANGED <<lastGiven, userId, questions, responses, currentQuestionIndex,
                   isSubmitting, submitCall, completed, submitLog, backendVars, chatVars, recVars, apiVars, dashVars, caVars, appVars, viewVars>>

\* the input of the displayed question changes, a first answer being kept
handleResponseKeepFirst(v) ==
    /\ QuestionsDisplayed
    /\ v \in InputChoices(currentQuestion)
    /\ v # DisplayedValue(currentQuestion)
    /\ responses' = [responses EXCEPT ![currentQuestion.id] =
                        IF @ = Undefined THEN v ELSE @]
    /\ lastGiven' = [lastGiven EXCEPT ![currentQuestion.id] = v]
    /\ UNCHANGED <<userId, questions, currentQuestionIndex, isLoading,
                   isSubmitting, error, loadCalls, submitCall, completed,
                   submitLog, backendVars, chatVars, recVars, apiVars, dashVars, caVars, appVars, viewVars>>

\* the input of the displayed question changes (onChange)
handleResponse(v) ==
    /\ QuestionsDisplayed
    /\ v \in InputChoices(currentQuestion)
    /\ v # DisplayedValue(currentQuestion)
    /\ responses' = [responses EXCEPT ![currentQuestion.id] = v]
    /\ lastGiven' = [lastGiven EXCEPT ![currentQuestion.id] = v]
    /\ UNCHANGED <<userId, questions, currentQuestionIndex, isLoading,
                   isSubmitting, error, loadCalls, submitCall, completed,
                   submitLog, backendVars, chatVars, recVars, apiVars, dashVars, caVars, appVars, viewVars>>

\* a Next button that is never disabled
goToNextAlways ==
    /\ QuestionsDisplayed
    /\ ~isLastQuestion
    /\ currentQuestionIndex' = currentQuestionIndex + 1
    /\ UNCHANGED <<lastGiven, userId, questions, responses, isLoading, isSubmitting, error,
                   loadCalls, submitCall, completed, submitLog, backendVars, chatVars, recVars, apiVars, dashVars, caVars, appVars, viewVars>>

\* the Next button: rendered unless on the last question, disabled unless canProceed
goToNext ==
    /\ QuestionsDisplayed
    /\ ~isLastQuestion
    /\ canProceed
    /\ currentQuestionIndex' =
           IF currentQuestionIndex < Len(questions) - 1
           THEN currentQuestionIndex + 1 ELSE currentQuestionIndex
    /\ UNCHANGED <<lastGiven, userId, questions, responses, isLoading, isSubmitting, error,
                   loadCalls, submitCall, completed, submitLog, backendVars, chatVars, recVars, apiVars, dashVars, caVars, appVars, viewVars>>

\* the Previous button: disabled on the first question
goToPrevious ==
    /\ QuestionsDisplayed
    /\ currentQuestionIndex # 0
    /\ currentQuestionIndex' =
           IF currentQuestionIndex > 0
           THEN currentQuestionIndex - 1 ELSE currentQuestionIndex
    /\ UNCHANGED <<lastGiven, userId, questions, responses, isLoading, isSubmitting, error,
                   loadCalls, submitCall, completed, submitLog, backendVars, chatVars, recVars, apiVars, dashVars, caVars, appVars, viewVars>>

\* submitQuestionnaire up to its await: the POST is sent
submitQuestionnaire ==
    /\ SubmitEnabled
    /\ submitCall = 0
    /\ isSubmitting' = TRUE
    /\ Receive(userId, submission.questions, submission.responses)
    /\ submitCall' = Len(srvReqs) + 1
    /\ UNCHANGED <<lastGiven, userId, questions, responses, currentQuestionIndex, isLoading,
                   error, loadCalls, completed, submitLog, store, writeLog, chatVars, recVars, apiVars, dashVars, caVars, appVars, viewVars>>

\* what the awaited submit call settles with: the backend's reply once it has
\* answered, or a transport failure at any time
SubmitOutcomes ==
    {ApiSubmitQuestionnaire(r) :
        r \in {[kind |-> "lost"]} \cup
              {srvReqs[i].reply : i \in {submitCall} \cap
                    {j \in 1..Len(srvReqs) : srvReqs[j].stage = "done"}}}

\* submitQuestionnaire after its await: onComplete(result.analysis), or the catch
SubmitSettle ==
    /\ Mounted
    /\ submitCall # 0
    /\ \E o \in SubmitOutcomes :
          /\ IF o.kind = "resolved"
             THEN /\ completed' = o.value.analysis
                  /\ UNCHANGED <<error, isSubmitting>>
             ELSE /\ error' = SubmitFailedText
                  /\ isSubmitting' = FALSE
                  /\ UNCHANGED completed
          /\ submitLog' = Append(submitLog, [req |-> submitCall, outcome |-> o])
    /\ submitCall' = 0
    /\ UNCHANGED <<lastGiven, userId, questions, responses, currentQuestionIndex, isLoading,
                   loadCalls, backendVars, chatVars, recVars, apiVars, dashVars, caVars, appVars, viewVars>>

\* the component mounts: useState defaults, and the effect's load in flight
InitQuestionnaire(user) ==
    /\ userId = user
    /\ questions = <<>>
    /\ responses = [id \in QIds |-> Undefined]
    /\ currentQuestionIndex = 0
    /\ isLoading = TRUE
    /\ isSubmitting = FALSE
    /\ error = <<>>
    /\ loadCalls = [u \in Users |-> IF u = userId THEN 1 ELSE 0]
    /\ submitCall = 0
    /\ completed = None
    /\ submitLog = <<>>
    /\ lastGiven = [id \in QIds |-> Undefined]

----------------------------------------------------------------------------
(* Recommendation Composer *)

\* the number of recommendations returned by default
DefaultTopN == 5

\* a title is a sequence of letters; their order in the alphabet
Letters == <<"a", "b", "c">>
Code(ch) == CHOOSE i \in 1..Len(Letters) : Letters[i] = ch

\* lexical order of titles: a proper prefix comes first
RECURSIVE LexLess(_, _)
LexLess(a, b) ==
    IF b = <<>> THEN FALSE
    ELSE IF a = <<>> THEN TRUE
    ELSE IF Head(a) = Head(b) THEN LexLess(Tail(a), Tail(b))
    ELSE Code(Head(a)) < Code(Head(b))

\* a career-reference entry: the required trait profile (a trait it does not
\* name is required at the midpoint) and the market-demand weight
Career(title, profile, demand) ==
    [title |-> title, demand |-> demand,
     profile |-> [t \in Traits |-> IF t \in DOMAIN profile THEN profile[t] ELSE Neutral]]

CareerPool ==
    {Career(<<"a", "b">>, [openness |-> 900, investigative |-> 800], 3),
     Career(<<"a", "c">>, [openness |-> 900, investigative |-> 800], 3),
     Career(<<"b">>, [openness |-> 900, investigative |-> 800], 5),
     Career(<<"b", "a">>, [conscientiousness |-> 1000], 1),
     Career(<<"c">>, [openness |-> 400, conscientiousness |-> 500], 2),
     Career(<<"c", "a">>, [extraversion |-> 0, neuroticism |-> 1000, social |-> 0], 4)}

\* squared distance between the user's trait vector and a career's profile
Distance2(traits, profile) ==
    LET d2 == [t \in Traits |-> (traits[t] - profile[t]) * (traits[t] - profile[t])]
    IN SumOver(Traits, d2)

\* the match score: Euclidean closeness (on squared distances), scaled to 0..100
MatchScore(traits, profile) ==
    100 - (100 * Distance2(traits, profile)) \div (Cardinality(Traits) * Scale * Scale)

\* the traits on which user and career are closest, the first in trait order
\* winning a tie
RECURSIVE ClosestTraits(_, _, _, _)
ClosestTraits(traits, profile, left, k) ==
    IF k = 0 \/ left = {} THEN <<>>
    ELSE LET gap(t) == IF traits[t] >= profile[t]
                       THEN traits[t] - profile[t] ELSE profile[t] - traits[t]
             i == CHOOSE i \in 1..Len(TraitOrder) :
                    /\ TraitOrder[i] \in left
                    /\ \A j \in 1..Len(TraitOrder) :
                          TraitOrder[j] \in left =>
                              \/ gap(TraitOrder[i]) < gap(TraitOrder[j])
                              \/ gap(TraitOrder[i]) = gap(TraitOrder[j]) /\ i <= j
         IN <<TraitOrder[i]>> \o
            ClosestTraits(traits, profile, left \ {TraitOrder[i]}, k - 1)

\* a scored entry: the CareerRecommendation and the demand weight it sorts by
Recommendation(assessment, c) ==
    [title |-> c.title,
     match_score |-> MatchScore(assessment.traits, c.profile),
     rationale |-> ClosestTraits(assessment.traits, c.profile, Traits, 2),
     demand |-> c.demand]

\* the order without the demand weight: score, then title
BeforeByScoreAndTitle(a, b) ==
    \/ a.match_score > b.match_score
    \/ a.match_score = b.match_score /\ LexLess(a.title, b.title)

\* a comes before b: higher score, then higher demand weight, then title
Before(a, b) ==
    \/ a.match_score > b.match_score
    \/ /\ a.match_score = b.match_score
       /\ \/ a.demand > b.demand
          \/ a.demand = b.demand /\ LexLess(a.title, b.title)

RECURSIVE InsertRanked(_, _)
InsertRanked(sorted, r) ==
    IF sorted = <<>> THEN <<r>>
    ELSE IF Before(r, Head(sorted)) THEN <<r>> \o sorted
    ELSE <<Head(sorted)>> \o InsertRanked(Tail(sorted), r)

RECURSIVE Rank(_)
Rank(rs) ==
    IF rs = <<>> THEN <<>>
    ELSE InsertRanked(Rank(SubSeq(rs, 1, Len(rs) - 1)), rs[Len(rs)])

\* the whole ranked list, never cut
ComposeUncut(assessment, table, n) ==
    Rank([i \in 1..Len(table) |-> Recommendation(assessment, table[i])])

\* the ranked list, cut to the top n
Compose(assessment, table, n) ==
    LET ranked == Rank([i \in 1..Len(table) |-> Recommendation(assessment, table[i])])
    IN SubSeq(ranked, 1, IF Len(ranked) < n THEN Len(ranked) ELSE n)

\* the backend's static career-reference table
CareerTable ==
    <<Career(<<"c">>, [openness |-> 400, conscientiousness |-> 500], 2),
      Career(<<"a", "c">>, [openness |-> 900, investigative |-> 800], 3),
      Career(<<"b">>, [openness |-> 900, investigative |-> 800], 5)>>

\* the composer is called on the inputs
Recommend ==
    /\ recOut = None
    /\ recOut' = [kind |-> "recommendations",
                  recommendations |-> Compose(recAssessment, recTable, recN)]
    /\ UNCHANGED <<recAssessment, recTable, recN, backendVars, qVars, chatVars, apiVars, dashVars, caVars, appVars, viewVars>>

\* tables: sequences of distinct pool entries
RECURSIVE TablesOfLen(_)
TablesOfLen(n) ==
    IF n = 0 THEN {<<>>}
    ELSE {Append(t, c) : t \in TablesOfLen(n - 1), c \in CareerPool}

Tables ==
    {t \in UNION {TablesOfLen(n) : n \in 0..MaxTable} :
        \A i, j \in 1..Len(t) : i # j => t[i].title # t[j].title}

\* valid AssessmentResults: those of the response sets that cover the required
\* questions of the sequence issued to the user
Assessments ==
    UNION {{AssessmentResult(u, GenerateQuestions(u), rs, 1) :
                rs \in {x \in ResponseSets(GenerateQuestions(u)) :
                            MissingResponses(GenerateQuestions(u), x) = {}}} :
           u \in Users}

\* a reference table holding every career of the pool, longer than the default N
FullTable ==
    CareerTable \o
    <<Career(<<"a", "b">>, [openness |-> 900, investigative |-> 800], 3),
      Career(<<"c", "a">>, [extraversion |-> 0, neuroticism |-> 1000, social |-> 0], 4),
      Career(<<"b", "a">>, [conscientiousness |-> 1000], 1)>>

InitRecIdle ==
    /\ recAssessment = None
    /\ recTable = <<>>
    /\ recN = DefaultTopN
    /\ recOut = None

InitRec ==
    /\ recAssessment \in Assessments
    /\ recTable \in Tables \cup {FullTable}
    /\ recN \in {2, DefaultTopN}
    /\ recOut = None

----------------------------------------------------------------------------
(* Backend: POST /api/agents/counseling/chat and GET /api/conversations    *)

\* the LLM answered: the conversation record of message n
Conversation(n, text) ==
    [message_id |-> n, user_message |-> text,
     agent_response |-> <<"counsel", n>>, timestamp |-> n]

\* the LLM call failed or timed out: 502 with a generic message
UpstreamServiceError ==
    [kind |-> "error", status |-> 502, detail |-> <<"upstream service unavailable">>]

----------------------------------------------------------------------------
(* ApiService: chatWithCounselor and getConversationHistory               *)

MockChatResponse ==
    [response |-> <<"I understand your concerns about career development.">>,
     sentiment_analysis |-> "neutral"]

\* mockConversations: the first is stamped now, the second a day earlier
mockConversations ==
    <<[message_id |-> -1, user_message |-> <<"What career path suits my interests?">>,
       agent_response |-> <<"Based on your profile, I recommend exploring data science.">>,
       timestamp |-> 0],
      [message_id |-> -2, user_message |-> <<"How can I improve my resume?">>,
       agent_response |-> <<"Focus on quantifiable achievements.">>,
       timestamp |-> -1]>>

\* chatWithCounselor: response.data, or in the catch (after a second's wait)
\* the mock response; the promise never rejects
chatWithCounselor(reply) ==
    IF reply.kind = "ok" THEN Resolved(reply.data) ELSE Resolved(MockChatResponse)

\* getConversationHistory: response.data, or in the catch the mock history
getConversationHistory(reply) ==
    IF reply.kind = "ok" THEN Resolved(reply.data)
    ELSE Resolved([conversations |-> mockConversations])

----------------------------------------------------------------------------
(* AIChat *)

Null == <<"null">>

\* String.prototype.trim on a text given as a sequence of characters
RECURSIVE TrimStart(_)
TrimStart(s) == IF s # <<>> /\ Head(s) = " " THEN TrimStart(Tail(s)) ELSE s
RECURSIVE TrimEnd(_)
TrimEnd(s) ==
    IF s # <<>> /\ s[Len(s)] = " " THEN TrimEnd(SubSeq(s, 1, Len(s) - 1)) ELSE s
Trim(s) == TrimEnd(TrimStart(s))

\* what the user can type into the input
ChatInputs == {<<>>, <<" ">>, <<"h", "i">>}

\* insert m into the time-sorted list after the entries not later than it
\* (Array.prototype.sort is stable)
RECURSIVE InsertByTime(_, _)
InsertByTime(sorted, m) ==
    IF sorted = <<>> THEN <<m>>
    ELSE IF Head(sorted).timestamp <= m.timestamp
         THEN <<Head(sorted)>> \o InsertByTime(Tail(sorted), m)
         ELSE <<m>> \o sorted

RECURSIVE SortByTime(_)
SortByTime(ms) ==
    IF ms = <<>> THEN <<>>
    ELSE InsertByTime(SortByTime(SubSeq(ms, 1, Len(ms) - 1)), ms[Len(ms)])

\* conversations.map(...).flat(): a user and an assistant message per record
RECURSIVE HistoryMessages(_)
HistoryMessages(cs) ==
    IF cs = <<>> THEN <<>>
    ELSE <<[id |-> <<Head(cs).message_id, "user">>, type |-> "user",
            content |-> Head(cs).user_message, timestamp |-> Head(cs).timestamp],
           [id |-> <<Head(cs).message_id, "assistant">>, type |-> "assistant",
            content |-> Head(cs).agent_response, timestamp |-> Head(cs).timestamp]>>
         \o HistoryMessages(Tail(cs))

\* loadChatHistory up to its await (the effect on mount, the Refresh button)
Refresh ==
    /\ ~isLoadingHistory
    /\ historyCalls < MaxRefresh
    /\ historyCalls' = historyCalls + 1
    /\ UNCHANGED <<convs, messages, inputMessage, chatIsLoading, isLoadingHistory,
                   chatError, chatCalls, sendCount, chatLog, backendVars, qVars, recVars, apiVars, dashVars, caVars, appVars, viewVars>>

\* loadChatHistory after its await: the list is replaced by the sorted history
HistorySettle ==
    /\ historyCalls > 0
    /\ historyCalls' = historyCalls - 1
    /\ \E reply \in {[kind |-> "lost"], [kind |-> "ok", data |-> [conversations |-> convs]]} :
          messages' = SortByTime(HistoryMessages(
                          getConversationHistory(reply).value.conversations))
    /\ isLoadingHistory' = FALSE
    /\ UNCHANGED <<convs, inputMessage, chatIsLoading, chatError, chatCalls,
                   sendCount, chatLog, backendVars, qVars, recVars, apiVars, dashVars, caVars, appVars, viewVars>>

\* the input's onChange; the input is disabled while isLoading
SetInput(v) ==
    /\ ~isLoadingHistory
    /\ ~chatIsLoading
    /\ inputMessage' = v
    /\ UNCHANGED <<convs, messages, chatIsLoading, isLoadingHistory, chatError,
                   chatCalls, historyCalls, sendCount, chatLog, backendVars, qVars, recVars, apiVars, dashVars, caVars, appVars, viewVars>>

\* handleSendMessage that never sets isLoading
handleSendMessageNotLoading ==
    /\ ~isLoadingHistory
    /\ sendCount < MaxSends
    /\ IF Trim(inputMessage) = <<>> \/ chatIsLoading
       THEN UNCHANGED <<messages, inputMessage, chatIsLoading, chatError,
                        chatCalls, sendCount>>
       ELSE /\ sendCount' = sendCount + 1
            /\ messages' = Append(messages,
                   [id |-> <<sendCount', "sent">>, type |-> "user",
                    content |-> inputMessage, timestamp |-> sendCount'])
            /\ inputMessage' = <<>>
            /\ chatError' = Null
            /\ chatCalls' = chatCalls \cup
                   {[n |-> sendCount', message |-> inputMessage, reply |-> NoReply]}
            /\ UNCHANGED chatIsLoading
    /\ UNCHANGED <<convs, isLoadingHistory, historyCalls, chatLog, backendVars, qVars, recVars, apiVars, dashVars, caVars, appVars, viewVars>>

\* handleSendMessage up to its await; it returns at once on a blank input or
\* while isLoading
handleSendMessage ==
    /\ ~isLoadingHistory
    /\ sendCount < MaxSends
    /\ IF Trim(inputMessage) = <<>> \/ chatIsLoading
       THEN UNCHANGED <<messages, inputMessage, chatIsLoading, chatError,
                        chatCalls, sendCount>>
       ELSE /\ sendCount' = sendCount + 1
            /\ messages' = Append(messages,
                   [id |-> <<sendCount', "sent">>, type |-> "user",
                    content |-> inputMessage, timestamp |-> sendCount'])
            /\ inputMessage' = <<>>
            /\ chatIsLoading' = TRUE
            /\ chatError' = Null
            /\ chatCalls' = chatCalls \cup
                   {[n |-> sendCount', message |-> inputMessage, reply |-> NoReply]}
    /\ UNCHANGED <<convs, isLoadingHistory, historyCalls, chatLog, backendVars, qVars, recVars, apiVars, dashVars, caVars, appVars, viewVars>>

\* the backend answers a chat request: the LLM's text, stored as a
\* conversation, or an upstream error
ChatBackend(c) ==
    /\ c \in chatCalls
    /\ c.reply = NoReply
    /\ \/ /\ convs' = Append(convs, Conversation(c.n, c.message))
          /\ chatCalls' = (chatCalls \ {c}) \cup
                {[c EXCEPT !.reply =
                    [kind |-> "ok",
                     data |-> [response |-> <<"counsel", c.n>>,
                               sentiment_analysis |-> "positive"]]]}
       \/ /\ chatCalls' = (chatCalls \ {c}) \cup {[c EXCEPT !.reply = UpstreamServiceError]}
          /\ UNCHANGED convs
    /\ UNCHANGED <<messages, inputMessage, chatIsLoading, isLoadingHistory,
                   chatError, historyCalls, sendCount, chatLog, backendVars, qVars, recVars, apiVars, dashVars, caVars, appVars, viewVars>>

\* handleSendMessage after its await: the assistant message is appended, or
\* the catch sets the error; finally isLoading is reset.  The call settles
\* with the backend's reply, or without one when the 10 s timeout expires.
ChatSettle(c) ==
    /\ c \in chatCalls
    /\ \E reply \in {[kind |-> "lost"]} \cup ({c.reply} \ {NoReply}) :
          LET o == chatWithCounselor(reply)
          IN /\ IF o.kind = "resolved"
                THEN /\ messages' = Append(messages,
                            [id |-> <<c.n, "assistant">>, type |-> "assistant",
                             content |-> o.value.response, timestamp |-> c.n])
                     /\ UNCHANGED chatError
                ELSE /\ chatError' = o.detail
                     /\ UNCHANGED messages
             /\ chatLog' = Append(chatLog, [n |-> c.n, reply |-> reply.kind])
    /\ chatCalls' = chatCalls \ {c}
    /\ chatIsLoading' = FALSE
    /\ UNCHANGED <<convs, inputMessage, isLoadingHistory, historyCalls, sendCount,
                   backendVars, qVars, recVars, apiVars, dashVars, caVars, appVars, viewVars>>

\* the Clear button
clearChat ==
    /\ ~isLoadingHistory
    /\ messages' = <<>>
    /\ chatError' = Null
    /\ UNCHANGED <<convs, inputMessage, chatIsLoading, isLoadingHistory, chatCalls,
                   historyCalls, sendCount, chatLog, backendVars, qVars, recVars, apiVars, dashVars, caVars, appVars, viewVars>>

\* the component mounts: useState defaults, and the effect's history call
InitChat ==
    /\ convs = <<>>
    /\ messages = <<>>
    /\ inputMessage = <<>>
    /\ chatIsLoading = FALSE
    /\ isLoadingHistory = TRUE
    /\ chatError = Null
    /\ chatCalls = {}
    /\ historyCalls = 1
    /\ sendCount = 0
    /\ chatLog = <<>>

----------------------------------------------------------------------------
(* Backend: the user endpoints                                             *)

EducationLevels == {"high_school", "bachelor", "master"}

NotFoundError ==
    [kind |-> "error", status |-> 404, detail |-> <<"User not found">>]

InvalidField(name) ==
    [kind |-> "error", status |-> 422, detail |-> <<"invalid value for", name>>]

Ok(data) == [kind |-> "ok", status |-> 200, data |-> data]

\* GET /api/users/{user_id}/profile
GetProfileReply(u) ==
    IF profiles[u] = None THEN NotFoundError ELSE Ok(profiles[u])

\* PUT /api/users/{user_id}/profile: the enumerated field is validated
PutProfileReply(u, data) ==
    IF profiles[u] = None THEN NotFoundError
    ELSE IF data.education_level \notin EducationLevels
         THEN InvalidField("education_level")
         ELSE Ok([message |-> <<"Profile updated successfully">>, status |-> "success"])

\* POST /api/users/register
RegisterReply(u, data) ==
    IF data.education_level \notin EducationLevels
    THEN InvalidField("education_level")
    ELSE Ok([user_id |-> u, message |-> <<"User registered successfully">>])

NewProfile(u, data) ==
    [user_id |-> u, name |-> data.name, education_level |-> data.education_level,
     questionnaire_completed |-> FALSE]

----------------------------------------------------------------------------
(* ApiService: the user calls *)

mockProfile ==
    [user_id |-> "demo-user", name |-> "Demo User", education_level |-> "bachelor"]

\* registerUser has no catch
registerUser(reply) ==
    IF reply.kind = "ok" THEN Resolved(reply.data)
    ELSE IF reply.kind = "error" THEN Rejected(reply.detail)
    ELSE Rejected(NoResponse)

\* getUserProfile without its catch
getUserProfileRethrowing(reply) ==
    IF reply.kind = "ok" THEN Resolved(reply.data)
    ELSE IF reply.kind = "error" THEN Rejected(reply.detail)
    ELSE Rejected(NoResponse)

\* getUserProfile: response.data, or in the catch the mock profile
getUserProfile(reply) ==
    IF reply.kind = "ok" THEN Resolved(reply.data) ELSE Resolved(mockProfile)

\* updateUserProfile: response.data, or in the catch a success message
updateUserProfile(reply) ==
    IF reply.kind = "ok" THEN Resolved(reply.data)
    ELSE Resolved([message |-> <<"Profile updated successfully (mock)">>,
                   status |-> "success"])

ApiMethod(op, reply) ==
    CASE op = "registerUser" -> registerUser(reply)
      [] op = "getUserProfile" -> getUserProfile(reply)
      [] OTHER -> updateUserProfile(reply)

\* the profile data a caller can send
ProfileInputs ==
    {[name |-> "Ann", education_level |-> "master"],
     [name |-> "Ann", education_level |-> "wizard"]}

\* a caller invokes a method: the request is sent
ApiCall(op, u, data) ==
    /\ Cardinality(apiCalls) + Len(apiLog) < MaxApiCalls
    /\ [op |-> op, user |-> u, data |-> data, reply |-> NoReply] \notin apiCalls
    /\ apiCalls' = apiCalls \cup {[op |-> op, user |-> u, data |-> data, reply |-> NoReply]}
    /\ UNCHANGED <<profiles, apiLog, backendVars, qVars, chatVars, recVars, dashVars, caVars, appVars, viewVars>>

\* the backend handles the request
ApiBackend(c) ==
    /\ c \in apiCalls
    /\ c.reply = NoReply
    /\ LET reply == CASE c.op = "registerUser" -> RegisterReply(c.user, c.data)
                      [] c.op = "getUserProfile" -> GetProfileReply(c.user)
                      [] OTHER -> PutProfileReply(c.user, c.data)
       IN /\ apiCalls' = (apiCalls \ {c}) \cup {[c EXCEPT !.reply = reply]}
          /\ profiles' =
                IF reply.kind # "ok" \/ c.op = "getUserProfile" THEN profiles
                ELSE IF c.op = "registerUser"
                     THEN [profiles EXCEPT ![c.user] = NewProfile(c.user, c.data)]
                     ELSE [profiles EXCEPT ![c.user] =
                             [@ EXCEPT !.name = c.data.name,
                                       !.education_level = c.data.education_level]]
    /\ UNCHANGED <<apiLog, backendVars, qVars, chatVars, recVars, dashVars, caVars, appVars, viewVars>>

\* the awaited call settles: with the backend's reply, or without one
ApiSettle(c) ==
    /\ c \in apiCalls
    /\ \E reply \in {[kind |-> "lost"]} \cup ({c.reply} \ {NoReply}) :
          apiLog' = Append(apiLog, [op |-> c.op, user |-> c.user, reply |-> reply,
                                    outcome |-> ApiMethod(c.op, reply)])
    /\ apiCalls' = apiCalls \ {c}
    /\ UNCHANGED <<profiles, backendVars, qVars, chatVars, recVars, dashVars, caVars, appVars, viewVars>>

InitApi ==
    /\ profiles = [u \in Users |-> None]
    /\ apiCalls = {}
    /\ apiLog = <<>>

----------------------------------------------------------------------------
(* Backend: the endpoints the dashboard reads                              *)

RECURSIVE Titles(_)
Titles(recs) ==
    IF recs = <<>> THEN <<>> ELSE <<Head(recs).title>> \o Titles(Tail(recs))

\* GET /api/agents/recommendations/{user_id}: recomputed from the stored
\* AssessmentResult; the flag when there is none
RecommendationsReply(u) ==
    IF store[u] = None
    THEN Ok([requires_questionnaire |-> TRUE, recommendations |-> <<>>,
             confidence |-> 0, questionnaire_status |-> "not_completed"])
    ELSE Ok([requires_questionnaire |-> FALSE,
             recommendations |-> Titles(Compose(store[u], CareerTable, DefaultTopN)),
             confidence |-> 90, questionnaire_status |-> "completed"])

\* GET /api/questionnaire/status/{user_id}
StatusReply(u) == Ok([completed |-> store[u] # None])

\* GET /api/conversations/{user_id}?limit=
ConversationsReply(u, limit) ==
    Ok([conversations |-> SubSeq(convs, 1, IF Len(convs) < limit THEN Len(convs) ELSE limit)])

\* GET /api/system/metrics
MetricsReply == Ok([system_status |-> <<"operational">>])

\* a complete submission of a client, received, handled and persisted without
\* another request in between
SubmitHandled(u, rs) ==
    /\ Len(srvReqs) < MaxReqs
    /\ LET i == Len(srvReqs) + 1
           qs == GenerateQuestions(u)
           out == ProcessSubmission(u, qs, rs, i)
           rec == Supersede(store[u], out)
       IN IF out.kind = "error"
          THEN /\ srvReqs' = Append(srvReqs,
                      [Request(u, qs, rs) EXCEPT !.stage = "done", !.reply = out])
               /\ UNCHANGED <<store, writeLog>>
          ELSE /\ srvReqs' = Append(srvReqs,
                      [Request(u, qs, rs) EXCEPT
                          !.stage = "done", !.result = out, !.seen = store[u],
                          !.reply = [kind |-> "ok", status |-> 200, analysis |-> rec]])
               /\ store' = [store EXCEPT ![u] = rec]
               /\ writeLog' = Append(writeLog, i)
    /\ UNCHANGED <<qVars, chatVars, recVars, apiVars, dashVars, caVars, appVars, viewVars>>

----------------------------------------------------------------------------
(* ApiService: the calls of the dashboard *)

mockRecommendations ==
    [recommendations |->
        <<<<"Focus on developing data visualization skills">>,
          <<"Consider pursuing a certification in cloud computing">>,
          <<"Build a strong LinkedIn presence">>,
          <<"Practice technical interviewing">>>>,
     confidence |-> 87,
     explanation |-> <<"These recommendations are based on your technical background.">>]

mockMetrics == [system_status |-> <<"operational (mock)">>]

\* getCareerRecommendations: response.data, or in the catch the mock list
getCareerRecommendations(reply) ==
    IF reply.kind = "ok" THEN Resolved(reply.data) ELSE Resolved(mockRecommendations)

\* getSystemMetrics: response.data, or in the catch the mock metrics
getSystemMetrics(reply) ==
    IF reply.kind = "ok" THEN Resolved(reply.data) ELSE Resolved(mockMetrics)

\* getQuestionnaireStatus has no catch
getQuestionnaireStatus(reply) ==
    IF reply.kind = "ok" THEN Resolved(reply.data)
    ELSE IF reply.kind = "error" THEN Rejected(reply.detail)
    ELSE Rejected(NoResponse)

----------------------------------------------------------------------------
(* Dashboard *)

\* obj.field of an object that may lack the field (undefined is falsy)
Truthy(obj, field) == field \in DOMAIN obj /\ obj[field] = TRUE

\* the five requests of fetchDashboardData
Endpoints == {"profile", "conversations", "metrics", "recommendations", "status"}

\* Promise.allSettled entry -> the value kept in data
Fulfilled(o, orElse) == IF o.kind = "resolved" THEN o.value ELSE orElse

\* the backend's answer to each of the five requests
EndpointReply(e) ==
    CASE e = "profile" -> GetProfileReply(dashUser)
      [] e = "conversations" -> ConversationsReply(dashUser, 5)
      [] e = "metrics" -> MetricsReply
      [] e = "recommendations" -> RecommendationsReply(dashUser)
      [] OTHER -> StatusReply(dashUser)

\* the backend handles one of the five requests, each on its own
DashBackend(e) ==
    /\ dashFetch
    /\ dashReplies[e] = NoReply
    /\ dashReplies' = [dashReplies EXCEPT ![e] = EndpointReply(e)]
    /\ UNCHANGED <<dashUser, dashData, dashIsLoading, dashError, showQuestionnaire,
                   dashFetch, backendVars, qVars, chatVars, recVars, apiVars, caVars,
                   appVars, viewVars>>

\* fetchDashboardData after Promise.allSettled: every request has settled, the
\* ones in `lost` without a reply from the backend
DashFetchSettle(lost) ==
    /\ dashFetch
    /\ \A e \in Endpoints \ lost : dashReplies[e] # NoReply
    /\ LET via(e) == IF e \in lost THEN [kind |-> "lost"] ELSE dashReplies[e]
           userProfile == getUserProfile(via("profile"))
           conversations == getConversationHistory(via("conversations"))
           metrics == getSystemMetrics(via("metrics"))
           recommendations == getCareerRecommendations(via("recommendations"))
           questionnaireStatus == getQuestionnaireStatus(via("status"))
       IN dashData' =
            [kind |-> "data",
             userProfile |-> Fulfilled(userProfile, None),
             recentConversations |->
                 IF conversations.kind = "resolved"
                 THEN conversations.value.conversations ELSE <<>>,
             systemMetrics |-> Fulfilled(metrics, None),
             recommendations |-> Fulfilled(recommendations, None),
             questionnaireStatus |-> Fulfilled(questionnaireStatus, None)]
    /\ dashIsLoading' = FALSE
    /\ dashFetch' = FALSE
    /\ UNCHANGED <<dashUser, dashError, showQuestionnaire, dashReplies, backendVars, qVars,
                   chatVars, recVars, apiVars, caVars, appVars, viewVars>>

\* the render reaches the dashboard itself
DashboardShown ==
    /\ ~dashIsLoading
    /\ dashError = Null
    /\ dashData # None
    /\ ~showQuestionnaire

questionnaireCompleted ==
    \/ Truthy(dashData.questionnaireStatus, "completed")
    \/ Truthy(dashData.userProfile, "questionnaire_completed")
    \/ /\ "questionnaire_status" \in DOMAIN dashData.recommendations
       /\ dashData.recommendations.questionnaire_status = "completed"

\* which content the recommendations preview renders
RecommendationsCard ==
    IF dashData.recommendations = None THEN "none"
    ELSE IF Truthy(dashData.recommendations, "requires_questionnaire")
         THEN "Questionnaire Required"
    ELSE IF /\ "recommendations" \in DOMAIN dashData.recommendations
            /\ Len(dashData.recommendations.recommendations) > 0
         THEN "Top Recommendation"
         ELSE "no recommendations"

\* Start Questionnaire (banner) or Complete Questionnaire (card)
StartQuestionnaire ==
    /\ DashboardShown
    /\ ~questionnaireCompleted \/ RecommendationsCard = "Questionnaire Required"
    /\ showQuestionnaire' = TRUE
    /\ UNCHANGED <<dashUser, dashData, dashIsLoading, dashError, dashFetch, dashReplies,
                   backendVars, qVars, chatVars, recVars, apiVars, caVars, appVars, viewVars>>

\* handleQuestionnaireComplete, called after a submission of the user went
\* through: the page is reloaded and the dashboard mounts again
handleQuestionnaireComplete ==
    /\ showQuestionnaire
    /\ store[dashUser] # None
    /\ showQuestionnaire' = FALSE
    /\ dashData' = None
    /\ dashIsLoading' = TRUE
    /\ dashFetch' = TRUE
    /\ dashReplies' = [e \in Endpoints |-> NoReply]
    /\ UNCHANGED <<dashUser, dashError, backendVars, qVars, chatVars, recVars, apiVars, caVars, appVars, viewVars>>

\* the component mounts: useState defaults, and the effect's fetch in flight
InitDashboard(user) ==
    /\ dashUser = user
    /\ dashData = None
    /\ dashIsLoading = TRUE
    /\ dashError = Null
    /\ showQuestionnaire = FALSE
    /\ dashFetch = TRUE
    /\ dashReplies = [e \in Endpoints |-> NoReply]

----------------------------------------------------------------------------
(* Backend: POST /api/agents/career-analysis                               *)

\* percentages travel with one decimal (confidence: 85.5): the unit is a tenth
PercentUnit == 10

AnalysisTypes ==
    {"personality_assessment", "interest_analysis", "skill_gap_analysis", "career_matching"}

\* a recommendation of the composer as an entry of career_matches
CareerMatch(rec) ==
    [career_title |-> rec.title, match_score |-> PercentUnit * rec.match_score,
     reasoning |-> rec.rationale]

\* the results of an analysis, from the stored AssessmentResult
AnalysisResults(u, type) ==
    IF store[u] = None THEN [assessment_stage |-> "questionnaire_required"]
    ELSE CASE type = "personality_assessment" ->
                [personality_scores |-> [t \in Range(PersonalityTraits) |-> store[u].traits[t]]]
           [] type = "interest_analysis" ->
                [interest_scores |-> [t \in Range(InterestCodes) |-> store[u].traits[t]]]
           [] type = "career_matching" ->
                [career_matches |->
                    LET recs == Compose(store[u], CareerTable, DefaultTopN)
                    IN [i \in 1..Len(recs) |-> CareerMatch(recs[i])]]
           [] OTHER -> [assessment_stage |-> "skill_questions"]

AnalysisReply(request) ==
    Ok([user_id |-> request.user_id, analysis_type |-> request.analysis_type,
        results |-> AnalysisResults(request.user_id, request.analysis_type),
        confidence |-> 90 * PercentUnit])

----------------------------------------------------------------------------
(* ApiService: performCareerAnalysis *)

\* the mock analysis of the catch: the same results for every analysis type
mockAnalysis(request) ==
    [user_id |-> request.user_id, analysis_type |-> request.analysis_type,
     results |->
        [personality_scores |->
            [openness |-> 750, conscientiousness |-> 680, extraversion |-> 520,
             agreeableness |-> 710, neuroticism |-> 340],
         interest_scores |->
            [realistic |-> 450, investigative |-> 820, artistic |-> 680,
             social |-> 580, enterprising |-> 710, conventional |-> 490],
         career_matches |->
            <<[career_title |-> <<"Data Scientist">>, match_score |-> 87 * PercentUnit,
               reasoning |-> <<"Your strong analytical skills ...">>],
              [career_title |-> <<"Product Manager">>, match_score |-> 82 * PercentUnit,
               reasoning |-> <<"Your combination of analytical thinking ...">>]>>],
     confidence |-> 855]

\* performCareerAnalysis: response.data, or in the catch the mock analysis
performCareerAnalysis(request, reply) ==
    IF reply.kind = "ok" THEN Resolved(reply.data) ELSE Resolved(mockAnalysis(request))

----------------------------------------------------------------------------
(* ApiService: the methods with a substitute for a failed request *)

\* the flag that selects demo data without a request
USE_MOCK_DATA == FALSE

\* GET /health
HealthReply == Ok([status |-> <<"healthy">>])

mockHealth == [status |-> <<"healthy (mock)">>]

\* healthCheck: demo data under the flag, else response.data, or in the catch
\* the mock health
healthCheck(reply) ==
    IF USE_MOCK_DATA THEN Resolved([status |-> <<"healthy (demo mode)">>])
    ELSE IF reply.kind = "ok" THEN Resolved(reply.data) ELSE Resolved(mockHealth)

\* the limit getConversationHistory sends when the caller gives none
DefaultLimit == 20

FallbackOps ==
    {"healthCheck", "getUserProfile", "updateUserProfile", "performCareerAnalysis",
     "chatWithCounselor", "getCareerRecommendations", "getSystemMetrics",
     "getConversationHistory"}

\* the arguments a caller can give to a method
ServiceInputs(op, u) ==
    CASE op = "updateUserProfile" -> ProfileInputs
      [] op = "performCareerAnalysis" ->
            {[user_id |-> u, analysis_type |-> "career_matching"]}
      [] op = "chatWithCounselor" -> {[user_id |-> u, message |-> <<"hello">>]}
      [] op = "getConversationHistory" -> {[limit |-> DefaultLimit]}
      [] OTHER -> {None}

\* the user ids a caller can give; two of the methods take none
ServiceUsers(op) ==
    IF op \in {"healthCheck", "getSystemMetrics"} THEN {"u1"} ELSE Users

\* what the method makes of the settled request
ServiceMethod(c, reply) ==
    CASE c.op = "healthCheck" -> healthCheck(reply)
      [] c.op = "getUserProfile" -> getUserProfile(reply)
      [] c.op = "updateUserProfile" -> updateUserProfile(reply)
      [] c.op = "performCareerAnalysis" -> performCareerAnalysis(c.data, reply)
      [] c.op = "chatWithCounselor" -> chatWithCounselor(reply)
      [] c.op = "getCareerRecommendations" -> getCareerRecommendations(reply)
      [] c.op = "getSystemMetrics" -> getSystemMetrics(reply)
      [] OTHER -> getConversationHistory(reply)

\* the endpoint's reply to the request in the backend's present state
ServiceReply(c) ==
    CASE c.op = "healthCheck" -> HealthReply
      [] c.op = "getUserProfile" -> GetProfileReply(c.user)
      [] c.op = "updateUserProfile" -> PutProfileReply(c.user, c.data)
      [] c.op = "performCareerAnalysis" -> AnalysisReply(c.data)
      [] c.op = "chatWithCounselor" ->
            Ok([response |-> <<"counsel", Len(convs) + 1>>,
                sentiment_analysis |-> "positive"])
      [] c.op = "getCareerRecommendations" -> RecommendationsReply(c.user)
      [] c.op = "getSystemMetrics" -> MetricsReply
      [] OTHER -> ConversationsReply(c.user, c.data.limit)

\* a caller invokes a method: with the flag off the request is sent
ServiceCall(op, u, data) ==
    /\ ~USE_MOCK_DATA
    /\ Cardinality(apiCalls) + Len(apiLog) < MaxApiCalls
    /\ [op |-> op, user |-> u, data |-> data, reply |-> NoReply] \notin apiCalls
    /\ apiCalls' = apiCalls \cup {[op |-> op, user |-> u, data |-> data, reply |-> NoReply]}
    /\ UNCHANGED <<profiles, apiLog, backendVars, qVars, chatVars, recVars, dashVars, caVars, appVars, viewVars>>

\* the backend handles the request, or fails on it
ServiceBackend(c) ==
    /\ c \in apiCalls
    /\ c.reply = NoReply
    /\ \E reply \in {ServiceReply(c), UpstreamServiceError} :
          /\ apiCalls' = (apiCalls \ {c}) \cup {[c EXCEPT !.reply = reply]}
          /\ profiles' =
                IF reply.kind = "ok" /\ c.op = "updateUserProfile"
                THEN [profiles EXCEPT ![c.user] =
                        [@ EXCEPT !.name = c.data.name,
                                  !.education_level = c.data.education_level]]
                ELSE profiles
          /\ convs' =
                IF reply.kind = "ok" /\ c.op = "chatWithCounselor"
                THEN Append(convs, Conversation(Len(convs) + 1, c.data.message))
                ELSE convs
    /\ UNCHANGED <<apiLog, backendVars, qVars, messages, inputMessage, chatIsLoading,
                   isLoadingHistory, chatError, chatCalls, historyCalls, sendCount,
                   chatLog, recVars, dashVars, caVars, appVars, viewVars>>

\* the awaited call settles: with the backend's reply, or without one
ServiceSettle(c) ==
    /\ c \in apiCalls
    /\ \E reply \in {[kind |-> "lost"]} \cup ({c.reply} \ {NoReply}) :
          apiLog' = Append(apiLog, [op |-> c.op, user |-> c.user, data |-> c.data,
                                    reply |-> reply,
                                    outcome |-> ServiceMethod(c, reply)])
    /\ apiCalls' = apiCalls \ {c}
    /\ UNCHANGED <<profiles, backendVars, qVars, chatVars, recVars, dashVars, caVars, appVars, viewVars>>

----------------------------------------------------------------------------
(* CareerAnalysis *)

\* Math.round of x/unit: the nearest integer, a half rounded up
MathRound(x, unit) == (2 * x + unit) \div (2 * unit)

\* obj.field || orElse, for a field that may be absent
Field(obj, field, orElse) == IF field \in DOMAIN obj THEN obj[field] ELSE orElse

\* matches.slice(0, 5)
MatchesShown == 5

\* the score of a match printed as it travels, not rounded to a whole percentage
DisplayedMatchScoreRaw(match) == match.match_score

\* the percentage renderCareerMatches prints for a match
DisplayedMatchScore(match) == MathRound(match.match_score, PercentUnit)

renderCareerMatches(results) ==
    LET matches == Field(results, "career_matches", <<>>)
        shown == SubSeq(matches, 1,
                        IF Len(matches) < MatchesShown THEN Len(matches) ELSE MatchesShown)
    IN [i \in 1..Len(shown) |->
            [career_title |-> shown[i].career_title,
             percent |-> DisplayedMatchScore(shown[i])]]

\* renderResults: the career matches on the screen
DisplayedMatches ==
    IF caResults = None \/ selectedAnalysis # "career_matching" THEN <<>>
    ELSE renderCareerMatches(caResults.results)

\* a click on an analysis type
SelectAnalysis(type) ==
    /\ type # selectedAnalysis
    /\ selectedAnalysis' = type
    /\ UNCHANGED <<caUser, caIsRunning, caResults, caError, caRecs, caCall, caRecCalls,
                   backendVars, qVars, chatVars, recVars, apiVars, dashVars, appVars, viewVars>>

\* runAnalysis up to its await: the button is disabled while isRunning
runAnalysis ==
    /\ ~caIsRunning
    /\ caIsRunning' = TRUE
    /\ caError' = Null
    /\ caResults' = None
    /\ caCall' = [user_id |-> caUser, analysis_type |-> selectedAnalysis]
    /\ UNCHANGED <<caUser, selectedAnalysis, caRecs, caRecCalls,
                   backendVars, qVars, chatVars, recVars, apiVars, dashVars, appVars, viewVars>>

\* runAnalysis after performCareerAnalysis settled (it never rejects): the
\* result is kept and the recommendations are loaded again
AnalysisSettle(lost) ==
    /\ caCall # None
    /\ LET reply == IF lost THEN [kind |-> "lost"] ELSE AnalysisReply(caCall)
       IN caResults' = performCareerAnalysis(caCall, reply).value
    /\ caCall' = None
    /\ caRecCalls' = caRecCalls \cup {"run"}
    /\ UNCHANGED <<caUser, selectedAnalysis, caIsRunning, caError, caRecs,
                   backendVars, qVars, chatVars, recVars, apiVars, dashVars, appVars, viewVars>>

\* loadRecommendations settles, the one of the mount effect or the one of
\* runAnalysis, whose finally then clears isRunning
RecsSettle(call, lost) ==
    /\ call \in caRecCalls
    /\ LET reply == IF lost THEN [kind |-> "lost"] ELSE RecommendationsReply(caUser)
       IN caRecs' = getCareerRecommendations(reply).value
    /\ caRecCalls' = caRecCalls \ {call}
    /\ caIsRunning' = IF call = "run" THEN FALSE ELSE caIsRunning
    /\ UNCHANGED <<caUser, selectedAnalysis, caResults, caError, caCall,
                   backendVars, qVars, chatVars, recVars, apiVars, dashVars, appVars, viewVars>>

\* the component mounts: useState defaults, and the effect's load in flight
InitCareerAnalysis(user) ==
    /\ caUser = user
    /\ selectedAnalysis = "personality_assessment"
    /\ caIsRunning = FALSE
    /\ caResults = None
    /\ caError = Null
    /\ caRecs = None
    /\ caCall = None
    /\ caRecCalls = {"mount"}

----------------------------------------------------------------------------
(* App (auto-login) *)

\* `user_${Date.now()}_${Math.random()...}`: the n-th id generated
GeneratedId(n) == <<"user", n>>

\* the id a visitor brings from an earlier visit
SavedId == <<"user", 0>>

\* the paths of the Routes and of the Navbar links
Paths == {"/", "/dashboard", "/profile", "/analysis", "/chat", "/analytics", "/settings"}

\* <Route path="/" element={<Navigate to="/dashboard" />} />
Routed(path) == IF path = "/" THEN "/dashboard" ELSE path

\* !savedUserId: no key, or the empty string
Falsy(v) == v = Null \/ v = <<>>

\* the mount effect: the saved id, or a generated one that is saved
AppMount ==
    /\ appIsLoading
    /\ IF Falsy(localStorage)
       THEN /\ idsMade < MaxIds
            /\ idsMade' = idsMade + 1
            /\ localStorage' = GeneratedId(idsMade + 1)
            /\ currentUser' = GeneratedId(idsMade + 1)
       ELSE /\ currentUser' = localStorage
            /\ UNCHANGED <<idsMade, localStorage>>
    /\ appIsLoading' = FALSE
    /\ location' = Routed(location)
    /\ UNCHANGED <<backendVars, qVars, chatVars, recVars, apiVars, dashVars, caVars, viewVars>>

\* a logout that only forgets the user: no new id is generated
handleUserLogoutNoNewId ==
    /\ ~appIsLoading
    /\ currentUser # Null
    /\ idsMade < MaxIds
    /\ idsMade' = idsMade + 1
    /\ localStorage' = Null
    /\ currentUser' = Null
    /\ UNCHANGED <<appIsLoading, location,
                   backendVars, qVars, chatVars, recVars, apiVars, dashVars, caVars, viewVars>>

\* handleUserLogout (Navbar's onLogout): the key is removed, a new id is
\* generated, saved and made the current user
handleUserLogout ==
    /\ ~appIsLoading
    /\ currentUser # Null
    /\ idsMade < MaxIds
    /\ idsMade' = idsMade + 1
    /\ localStorage' = GeneratedId(idsMade + 1)
    /\ currentUser' = GeneratedId(idsMade + 1)
    /\ UNCHANGED <<appIsLoading, location,
                   backendVars, qVars, chatVars, recVars, apiVars, dashVars, caVars, viewVars>>

\* a Navbar link, or an address typed
Navigate(path) ==
    /\ ~appIsLoading
    /\ currentUser # Null
    /\ path # location
    /\ location' = Routed(path)
    /\ UNCHANGED <<currentUser, appIsLoading, localStorage, idsMade,
                   backendVars, qVars, chatVars, recVars, apiVars, dashVars, caVars, viewVars>>

\* the page is loaded again: the component state is lost, localStorage and
\* the address stay
Reload ==
    /\ currentUser' = Null
    /\ appIsLoading' = TRUE
    /\ UNCHANGED <<localStorage, idsMade, location,
                   backendVars, qVars, chatVars, recVars, apiVars, dashVars, caVars, viewVars>>

\* useState defaults, for a visitor with the given localStorage and address
InitApp(saved, path) ==
    /\ currentUser = Null
    /\ appIsLoading = TRUE
    /\ localStorage = saved
    /\ idsMade = 0
    /\ location = path

InitAppIdle == InitApp(Null, "/")

----------------------------------------------------------------------------
(* UserProfile *)

\* the userId prop of the profile view
upUser == "u1"

\* parseInt of a text of decimal digits
RECURSIVE ParseInt(_)
ParseInt(ds) ==
    IF ds = <<>> THEN 0 ELSE 10 * ParseInt(SubSeq(ds, 1, Len(ds) - 1)) + ds[Len(ds)]

\* {...obj, [name]: v}
Spread(obj, name, v) ==
    [f \in DOMAIN obj \cup {name} |-> IF f = name THEN v ELSE obj[f]]

\* what the user can enter in the form's inputs
NameInputs == {"Ann", "Bob"}
AgeInputs == {<<>>, <<3, 0>>}
EducationInputs == {"", "master"}

\* the rendered view: past the loading and the not-found screens
ProfileShown == ~upIsLoading /\ upProfile # None

\* the effect's fetchProfile after its await: getUserProfile never rejects
ProfileFetchSettle(lost) ==
    /\ upFetch
    /\ LET reply == IF lost THEN [kind |-> "lost"] ELSE GetProfileReply(upUser)
           o == getUserProfile(reply)
       IN IF o.kind = "resolved"
          THEN /\ upProfile' = o.value
               /\ editedProfile' = o.value
               /\ UNCHANGED upError
          ELSE /\ upError' = <<"Failed to load profile">>
               /\ UNCHANGED <<upProfile, editedProfile>>
    /\ upIsLoading' = FALSE
    /\ upFetch' = FALSE
    /\ UNCHANGED <<isEditing, isSaving, upSuccess, upSave, backendVars, qVars, chatVars,
                   recVars, apiVars, dashVars, caVars, appVars, anVars, setVars, loginVars>>

\* the Edit Profile button, rendered when not editing
StartEdit ==
    /\ ProfileShown
    /\ ~isEditing
    /\ isEditing' = TRUE
    /\ UNCHANGED <<upProfile, editedProfile, upIsLoading, isSaving, upError, upSuccess,
                   upFetch, upSave, backendVars, qVars, chatVars, recVars, apiVars,
                   dashVars, caVars, appVars, anVars, setVars, loginVars>>

\* handleInputChange: the inputs are disabled unless editing; age is parsed,
\* an empty age is undefined
handleInputChange(name, value) ==
    /\ ProfileShown
    /\ isEditing
    /\ editedProfile' =
          IF editedProfile = None THEN editedProfile
          ELSE Spread(editedProfile, name,
                      IF name = "age"
                      THEN (IF value # <<>> THEN Num(ParseInt(value)) ELSE Undefined)
                      ELSE value)
    /\ UNCHANGED <<upProfile, isEditing, upIsLoading, isSaving, upError, upSuccess,
                   upFetch, upSave, backendVars, qVars, chatVars, recVars, apiVars,
                   dashVars, caVars, appVars, anVars, setVars, loginVars>>

\* handleSave up to its await: the request carries the form as it is now
handleSave ==
    /\ ProfileShown
    /\ isEditing
    /\ ~isSaving
    /\ editedProfile # None
    /\ isSaving' = TRUE
    /\ upError' = Null
    /\ upSuccess' = Null
    /\ upSave' = editedProfile
    /\ UNCHANGED <<upProfile, editedProfile, isEditing, upIsLoading, upFetch,
                   backendVars, qVars, chatVars, recVars, apiVars, dashVars, caVars,
                   appVars, anVars, setVars, loginVars>>

\* handleSave after its await (updateUserProfile never rejects): the profile
\* becomes the form as it was when Save was clicked, and editing ends
SaveSettle(lost) ==
    /\ upSave # None
    /\ LET reply == IF lost THEN [kind |-> "lost"] ELSE PutProfileReply(upUser, upSave)
           o == updateUserProfile(reply)
       IN /\ IF o.kind = "resolved"
             THEN /\ upProfile' = upSave
                  /\ isEditing' = FALSE
                  /\ upSuccess' = <<"Profile updated successfully!">>
                  /\ UNCHANGED upError
             ELSE /\ upError' = o.detail
                  /\ UNCHANGED <<upProfile, isEditing, upSuccess>>
          /\ profiles' =
                IF reply.kind = "ok"
                THEN [profiles EXCEPT ![upUser] =
                        [@ EXCEPT !.name = upSave.name,
                                  !.education_level = upSave.education_level]]
                ELSE profiles
    /\ isSaving' = FALSE
    /\ upSave' = None
    /\ UNCHANGED <<editedProfile, upIsLoading, upFetch, apiCalls, apiLog, backendVars,
                   qVars, chatVars, recVars, dashVars, caVars, appVars, anVars, setVars,
                   loginVars>>

\* handleCancel: the button is rendered while editing, disabled while saving
handleCancel ==
    /\ ProfileShown
    /\ isEditing
    /\ ~isSaving
    /\ editedProfile' = upProfile
    /\ isEditing' = FALSE
    /\ upError' = Null
    /\ UNCHANGED <<upProfile, upIsLoading, isSaving, upSuccess, upFetch, upSave,
                   backendVars, qVars, chatVars, recVars, apiVars, dashVars, caVars,
                   appVars, anVars, setVars, loginVars>>

\* the component mounts: useState defaults, and the effect's fetch in flight
InitUserProfile ==
    /\ upProfile = None
    /\ editedProfile = None
    /\ isEditing = FALSE
    /\ upIsLoading = TRUE
    /\ isSaving = FALSE
    /\ upError = Null
    /\ upSuccess = Null
    /\ upFetch = TRUE
    /\ upSave = None

----------------------------------------------------------------------------
(* Analytics *)

\* the analytics endpoints answer for the parameters of the request
AnalyticsReply(c) ==
    Ok([kind |-> c.kind, industry |-> c.industry, role |-> c.role, skills |-> c.skills])

\* a failure inside the backend
InternalServerError ==
    [kind |-> "error", status |-> 500, detail |-> <<"Internal Server Error">>]

\* getCareerTrends, getSkillDemandAnalysis, getMarketPredictions: response.data,
\* or the axios error (none of the three has a catch)
AnalyticsMethod(reply) ==
    IF reply.kind = "ok" THEN Resolved(reply.data)
    ELSE IF reply.kind = "error"
         THEN [kind |-> "rejected", code |-> "ERR_BAD_RESPONSE",
               status |-> reply.status, detail |-> reply.detail]
         ELSE [kind |-> "rejected", code |-> "ECONNABORTED",
               status |-> 0, detail |-> <<>>]

\* the message a catch of the component sets for a rejected call
AnalyticsError(kind, o) ==
    IF kind = "trends"
    THEN (IF o.detail # <<>> THEN o.detail ELSE <<"Failed to load career trends">>)
    ELSE IF o.code = "ECONNABORTED" THEN <<"Request timed out.">>
    ELSE IF o.status = InternalServerError.status THEN <<"Server error occurred.">>
    ELSE IF o.detail # <<>> THEN o.detail
    ELSE <<"Network error">>

\* the options of the selects, the first being the placeholder
Industries == {"", "technology", "finance"}
Roles == {"", "nurse"}
SkillQueries == {<<>>, <<"python,javascript,react">>}
Tabs == {"trends", "skills", "predictions"}

\* a request of the component is sent
AnSend(kind, industry, role, skills) ==
    /\ anCount < MaxAnalytics
    /\ anCount' = anCount + 1
    /\ anCalls' = anCalls \cup
          {[n |-> anCount + 1, kind |-> kind, industry |-> industry, role |-> role,
            skills |-> skills]}
    /\ anIsLoading' = TRUE
    /\ anError' = Null

\* the effect on [activeTab, selectedIndustry, selectedRole], run after a render
\* in which one of them changed: loadCareerTrends up to its await
TrendsEffect(tab, industry, role) ==
    IF tab = "trends" /\ industry # "" /\ role # ""
    THEN AnSend("trends", industry, role, <<>>)
    ELSE UNCHANGED <<anCalls, anCount, anIsLoading, anError>>

\* a tab button
SetActiveTab(tab) ==
    /\ tab # activeTab
    /\ activeTab' = tab
    /\ TrendsEffect(tab, selectedIndustry, selectedRole)
    /\ UNCHANGED <<trendsData, skillsData, predictionsData, selectedIndustry,
                   selectedRole, skillsQuery, anLog, backendVars, qVars, chatVars,
                   recVars, apiVars, dashVars, caVars, appVars, upVars, setVars,
                   loginVars>>

\* the industry select of the trends tab and of the predictions tab
SetSelectedIndustry(industry) ==
    /\ activeTab \in {"trends", "predictions"}
    /\ industry # selectedIndustry
    /\ selectedIndustry' = industry
    /\ TrendsEffect(activeTab, industry, selectedRole)
    /\ UNCHANGED <<activeTab, trendsData, skillsData, predictionsData, selectedRole,
                   skillsQuery, anLog, backendVars, qVars, chatVars, recVars, apiVars,
                   dashVars, caVars, appVars, upVars, setVars, loginVars>>

\* the role select of the trends tab
SetSelectedRole(role) ==
    /\ activeTab = "trends"
    /\ role # selectedRole
    /\ selectedRole' = role
    /\ TrendsEffect(activeTab, selectedIndustry, role)
    /\ UNCHANGED <<activeTab, trendsData, skillsData, predictionsData, selectedIndustry,
                   skillsQuery, anLog, backendVars, qVars, chatVars, recVars, apiVars,
                   dashVars, caVars, appVars, upVars, setVars, loginVars>>

\* the skills input
SetSkillsQuery(query) ==
    /\ activeTab = "skills"
    /\ query # skillsQuery
    /\ skillsQuery' = query
    /\ UNCHANGED <<activeTab, trendsData, skillsData, predictionsData, anIsLoading,
                   anError, selectedIndustry, selectedRole, anCalls, anCount, anLog,
                   backendVars, qVars, chatVars, recVars, apiVars, dashVars, caVars,
                   appVars, upVars, setVars, loginVars>>

\* the Refresh button of the trends tab: loadCareerTrends up to its await
loadCareerTrends ==
    /\ activeTab = "trends"
    /\ ~anIsLoading /\ selectedIndustry # "" /\ selectedRole # ""
    /\ AnSend("trends", selectedIndustry, selectedRole, <<>>)
    /\ UNCHANGED <<activeTab, trendsData, skillsData, predictionsData, selectedIndustry,
                   selectedRole, skillsQuery, anLog, backendVars, qVars, chatVars,
                   recVars, apiVars, dashVars, caVars, appVars, upVars, setVars,
                   loginVars>>

\* the Analyze button of the skills tab: loadSkillsAnalysis up to its await
loadSkillsAnalysis ==
    /\ activeTab = "skills"
    /\ ~anIsLoading /\ Trim(skillsQuery) # <<>>
    /\ AnSend("skills", "", "", skillsQuery)
    /\ UNCHANGED <<activeTab, trendsData, skillsData, predictionsData, selectedIndustry,
                   selectedRole, skillsQuery, anLog, backendVars, qVars, chatVars,
                   recVars, apiVars, dashVars, caVars, appVars, upVars, setVars,
                   loginVars>>

\* the button of the predictions tab: loadMarketPredictions up to its await
loadMarketPredictions ==
    /\ activeTab = "predictions"
    /\ ~anIsLoading /\ selectedIndustry # ""
    /\ AnSend("predictions", selectedIndustry, "", <<>>)
    /\ UNCHANGED <<activeTab, trendsData, skillsData, predictionsData, selectedIndustry,
                   selectedRole, skillsQuery, anLog, backendVars, qVars, chatVars,
                   recVars, apiVars, dashVars, caVars, appVars, upVars, setVars,
                   loginVars>>

\* a load after its await: the data is set, or the catch sets the error;
\* finally isLoading is reset
AnalyticsSettle(c, reply) ==
    /\ c \in anCalls
    /\ LET o == AnalyticsMethod(reply)
       IN /\ IF o.kind = "resolved"
             THEN /\ trendsData' = IF c.kind = "trends" THEN o.value ELSE trendsData
                  /\ skillsData' = IF c.kind = "skills" THEN o.value ELSE skillsData
                  /\ predictionsData' =
                        IF c.kind = "predictions" THEN o.value ELSE predictionsData
                  /\ UNCHANGED anError
             ELSE /\ anError' = AnalyticsError(c.kind, o)
                  /\ UNCHANGED <<trendsData, skillsData, predictionsData>>
          /\ anLog' = Append(anLog, [n |-> c.n, kind |-> c.kind, outcome |-> o.kind])
    /\ anCalls' = anCalls \ {c}
    /\ anIsLoading' = FALSE
    /\ UNCHANGED <<activeTab, selectedIndustry, selectedRole, skillsQuery, anCount,
                   backendVars, qVars, chatVars, recVars, apiVars, dashVars, caVars,
                   appVars, upVars, setVars, loginVars>>

\* the component mounts: useState defaults
InitAnalytics ==
    /\ activeTab = "trends"
    /\ trendsData = None
    /\ skillsData = None
    /\ predictionsData = None
    /\ anIsLoading = FALSE
    /\ anError = Null
    /\ selectedIndustry = ""
    /\ selectedRole = ""
    /\ skillsQuery = <<"python,javascript,react">>
    /\ anCalls = {}
    /\ anCount = 0
    /\ anLog = <<>>

----------------------------------------------------------------------------
(* Settings *)

\* the component mounts: useState defaults
InitSettings ==
    /\ isResetting = FALSE
    /\ resetStatus = "idle"
    /\ showConfirmDialog = FALSE
    /\ resetCall = FALSE
    /\ resetCount = 0
    /\ resetLog = <<>>
    /\ reloadTimer = FALSE

\* what the handler can get from its call: a response whose status is
\* 'reset_complete', a response with another status, or an exception
ResetOutcomes ==
    {Resolved([status |-> "reset_complete"]), Resolved([status |-> "reset_failed"]),
     Rejected(NoResponse)}

\* the Reset button of the page
confirmReset ==
    /\ ~isResetting
    /\ showConfirmDialog' = TRUE
    /\ UNCHANGED <<isResetting, resetStatus, resetCall, resetCount, resetLog, reloadTimer,
                   backendVars, qVars, chatVars, recVars, apiVars, dashVars, caVars,
                   appVars, upVars, anVars, loginVars>>

\* the Cancel button of the dialog
cancelReset ==
    /\ showConfirmDialog
    /\ showConfirmDialog' = FALSE
    /\ UNCHANGED <<isResetting, resetStatus, resetCall, resetCount, resetLog, reloadTimer,
                   backendVars, qVars, chatVars, recVars, apiVars, dashVars, caVars,
                   appVars, upVars, anVars, loginVars>>

\* the confirm button of the dialog: handleResetData up to its await
handleResetData ==
    /\ showConfirmDialog /\ ~isResetting
    /\ resetCount < MaxResets
    /\ isResetting' = TRUE
    /\ resetStatus' = "idle"
    /\ resetCall' = TRUE
    /\ resetCount' = resetCount + 1
    /\ UNCHANGED <<showConfirmDialog, resetLog, reloadTimer, backendVars, qVars,
                   chatVars, recVars, apiVars, dashVars, caVars, appVars, upVars,
                   anVars, loginVars>>

\* a variant of ResetSettle without the finally block
ResetSettleNoFinally(o) ==
    /\ resetCall
    /\ resetCall' = FALSE
    /\ IF o.kind = "resolved"
       THEN IF o.value.status = "reset_complete"
            THEN resetStatus' = "success" /\ reloadTimer' = TRUE
            ELSE UNCHANGED <<resetStatus, reloadTimer>>
       ELSE resetStatus' = "error" /\ UNCHANGED reloadTimer
    /\ resetLog' = Append(resetLog, [n |-> resetCount, outcome |-> o])
    /\ UNCHANGED <<isResetting, showConfirmDialog, resetCount, backendVars, qVars,
                   chatVars, recVars, apiVars, dashVars, caVars, appVars, upVars,
                   anVars, loginVars>>

\* handleResetData after its await: the status by the response, the catch,
\* and the finally block
ResetSettle(o) ==
    /\ resetCall
    /\ resetCall' = FALSE
    /\ IF o.kind = "resolved"
       THEN IF o.value.status = "reset_complete"
            THEN resetStatus' = "success" /\ reloadTimer' = TRUE
            ELSE UNCHANGED <<resetStatus, reloadTimer>>
       ELSE resetStatus' = "error" /\ UNCHANGED reloadTimer
    /\ isResetting' = FALSE
    /\ showConfirmDialog' = FALSE
    /\ resetLog' = Append(resetLog, [n |-> resetCount, outcome |-> o])
    /\ UNCHANGED <<resetCount, backendVars, qVars, chatVars, recVars, apiVars,
                   dashVars, caVars, appVars, upVars, anVars, loginVars>>

\* the timer set on success fires: window.location.reload(); the page is
\* built anew and a response still awaited is dropped with the old page
ReloadAfterReset ==
    /\ reloadTimer
    /\ reloadTimer' = FALSE
    /\ isResetting' = FALSE
    /\ resetStatus' = "idle"
    /\ showConfirmDialog' = FALSE
    /\ resetCall' = FALSE
    /\ UNCHANGED <<resetCount, resetLog, backendVars, qVars, chatVars, recVars,
                   apiVars, dashVars, caVars, appVars, upVars, anVars, loginVars>>

----------------------------------------------------------------------------
(* Login and the App that shows it *)

EmptyForm == [name |-> <<>>, email |-> <<>>, educationLevel |-> ""]

\* the component mounts: useState defaults
InitLogin ==
    /\ isLogin = TRUE
    /\ loginIsLoading = FALSE
    /\ loginError = <<>>
    /\ formData = EmptyForm
    /\ regCall = None

\* email.split('@')[0]: the text before the first '@'
RECURSIVE BeforeAt(_)
BeforeAt(s) ==
    IF s = <<>> \/ Head(s) = "@" THEN <<>> ELSE <<Head(s)>> \o BeforeAt(Tail(s))

\* formData.email.split('@')[0] || 'user'
LoginUserId(email) == IF BeforeAt(email) = <<>> THEN <<"user">> ELSE BeforeAt(email)

\* what the visitor can enter in the form
LoginNames == {<<>>, <<"Ann">>}
LoginEmails == {<<>>, <<"ann", "@", "x.org">>, <<"bob", "@", "x.org">>}
LoginEducation == {"high_school", "masters"}

\* the Sign In and Get Started tabs
setIsLogin(b) ==
    /\ ~appIsLoading /\ Falsy(currentUser)
    /\ b # isLogin
    /\ isLogin' = b
    /\ UNCHANGED <<loginIsLoading, loginError, formData, regCall, apiVars, appVars,
                   backendVars, qVars, chatVars, recVars, dashVars, caVars, upVars, anVars, setVars>>

\* handleInputChange of Login
LoginInputChange(name, value) ==
    /\ ~appIsLoading /\ Falsy(currentUser)
    /\ name \in (IF isLogin THEN {"email"} ELSE {"name", "email", "educationLevel"})
    /\ formData[name] # value
    /\ formData' = [formData EXCEPT ![name] = value]
    /\ UNCHANGED <<isLogin, loginIsLoading, loginError, regCall, apiVars, appVars,
                   backendVars, qVars, chatVars, recVars, dashVars, caVars, upVars, anVars, setVars>>

\* the mount effect of the login-based App
LoginAppMount ==
    /\ appIsLoading
    /\ currentUser' = IF Falsy(localStorage) THEN currentUser ELSE localStorage
    /\ appIsLoading' = FALSE
    /\ UNCHANGED <<localStorage, idsMade, location, apiVars, loginVars,
                   backendVars, qVars, chatVars, recVars, dashVars, caVars, upVars, anVars, setVars>>

\* handleSubmit on the Sign In tab: onLogin with the id made from the email
\* (handleUserLogin); the Login screen is replaced by the application
handleSubmitLogin ==
    /\ ~appIsLoading /\ Falsy(currentUser)
    /\ isLogin /\ ~loginIsLoading
    /\ formData.email # <<>>
    /\ currentUser' = LoginUserId(formData.email)
    /\ localStorage' = LoginUserId(formData.email)
    /\ isLogin' = TRUE /\ loginIsLoading' = FALSE /\ loginError' = <<>>
    /\ formData' = EmptyForm
    /\ UNCHANGED <<regCall, appIsLoading, idsMade, location, apiVars,
                   backendVars, qVars, chatVars, recVars, dashVars, caVars, upVars, anVars, setVars>>

\* handleSubmit on the Get Started tab up to its await
handleSubmitRegister ==
    /\ ~appIsLoading /\ Falsy(currentUser)
    /\ ~isLogin /\ ~loginIsLoading
    /\ formData.email # <<>> /\ formData.name # <<>>
    /\ regCall = None
    /\ loginIsLoading' = TRUE
    /\ loginError' = <<>>
    /\ regCall' = [kind |-> "register", name |-> formData.name,
                   education_level |-> IF formData.educationLevel = ""
                                       THEN "undefined" ELSE formData.educationLevel]
    /\ UNCHANGED <<isLogin, formData, apiVars, appVars,
                   backendVars, qVars, chatVars, recVars, dashVars, caVars, upVars, anVars, setVars>>

\* the registration settles: onLogin(response.user_id) (handleUserLogin),
\* or the catch shows the message; the backend names the new user u
RegisterSettle(u, lost) ==
    /\ regCall # None
    /\ profiles[u] = None
    /\ LET reply == IF lost THEN [kind |-> "lost"] ELSE RegisterReply(u, regCall)
           o == registerUser(reply)
       IN /\ profiles' = IF reply.kind = "ok"
                         THEN [profiles EXCEPT ![u] = NewProfile(u, regCall)]
                         ELSE profiles
          /\ IF o.kind = "resolved"
             THEN /\ currentUser' = <<o.value.user_id>>
                  /\ localStorage' = <<o.value.user_id>>
                  /\ isLogin' = TRUE /\ loginError' = <<>> /\ formData' = EmptyForm
             ELSE /\ loginError' = o.detail
                  /\ UNCHANGED <<currentUser, localStorage, isLogin, formData>>
    /\ loginIsLoading' = FALSE
    /\ regCall' = None
    /\ UNCHANGED <<apiCalls, apiLog, appIsLoading, idsMade, location,
                   backendVars, qVars, chatVars, recVars, dashVars, caVars, upVars, anVars, setVars>>

\* a logout that leaves the key in localStorage
LoginAppLogoutKeepingKey ==
    /\ ~appIsLoading /\ ~Falsy(currentUser)
    /\ currentUser' = Null
    /\ UNCHANGED <<localStorage, appIsLoading, idsMade, location, apiVars, loginVars,
                   backendVars, qVars, chatVars, recVars, dashVars, caVars, upVars, anVars, setVars>>

\* handleUserLogout of the login-based App (the Navbar's logout button)
LoginAppLogout ==
    /\ ~appIsLoading /\ ~Falsy(currentUser)
    /\ currentUser' = Null
    /\ localStorage' = Null
    /\ UNCHANGED <<appIsLoading, idsMade, location, apiVars, loginVars,
                   backendVars, qVars, chatVars, recVars, dashVars, caVars, upVars, anVars, setVars>>

\* the page is loaded again: the state of App and Login is lost and a
\* registration still awaited is dropped with the old page; localStorage stays
LoginAppReload ==
    /\ currentUser' = Null
    /\ appIsLoading' = TRUE
    /\ isLogin' = TRUE /\ loginIsLoading' = FALSE /\ loginError' = <<>>
    /\ formData' = EmptyForm
    /\ regCall' = None
    /\ UNCHANGED <<localStorage, idsMade, location, apiVars,
                   backendVars, qVars, chatVars, recVars, dashVars, caVars, upVars, anVars, setVars>>

\* what the login-based App renders
LoginAppRenders ==
    IF appIsLoading THEN "loading"
    ELSE IF Falsy(currentUser) THEN "Login" ELSE "Router"

InitViews == InitUserProfile /\ InitAnalytics /\ InitSettings /\ InitLogin

----------------------------------------------------------------------------
(* Specifications *)

\* every component freshly mounted for user u1, the backend empty
Init ==
    /\ InitBackend /\ InitQuestionnaire("u1") /\ InitChat /\ InitRecIdle
    /\ InitApi /\ InitDashboard("u1") /\ InitCareerAnalysis("u1") /\ InitAppIdle
    /\ InitViews

InitQ ==
    /\ InitBackend /\ InitChat /\ InitRecIdle /\ InitApi /\ InitDashboard("u1")
    /\ InitCareerAnalysis("u1") /\ InitAppIdle
    /\ \E u \in Users : InitQuestionnaire(u)
    /\ InitViews

\* the chat component against the counseling endpoint
NextChat ==
    \/ Refresh
    \/ HistorySettle
    \/ \E v \in ChatInputs : SetInput(v)
    \/ handleSendMessage
    \/ \E c \in chatCalls : ChatBackend(c)
    \/ \E c \in chatCalls : ChatSettle(c)
    \/ clearChat

SpecChat == Init /\ [][NextChat]_vars

\* the Recommendation Composer on every assessment and table within the bounds
NextRec == Recommend

InitRecommend ==
    /\ InitBackend /\ InitQuestionnaire("u1") /\ InitChat /\ InitRec
    /\ InitApi /\ InitDashboard("u1") /\ InitCareerAnalysis("u1") /\ InitAppIdle
    /\ InitViews

\* callers of the profile methods of ApiService against the user endpoints
NextApi ==
    \/ \E op \in {"registerUser", "getUserProfile", "updateUserProfile"} :
          \E u \in Users : \E d \in ProfileInputs : ApiCall(op, u, d)
    \/ \E c \in apiCalls : ApiBackend(c)
    \/ \E c \in apiCalls : ApiSettle(c)

SpecApi == Init /\ [][NextApi]_vars

\* callers of the methods that substitute mock data, against the backend
NextService ==
    \/ \E op \in FallbackOps : \E u \in ServiceUsers(op) : \E d \in ServiceInputs(op, u) :
          ServiceCall(op, u, d)
    \/ \E c \in apiCalls : ServiceBackend(c)
    \/ \E c \in apiCalls : ServiceSettle(c)

\* the first user registered or unknown to the backend
InitService ==
    /\ InitBackend /\ InitQuestionnaire("u1") /\ InitChat /\ InitRecIdle
    /\ InitDashboard("u1") /\ InitCareerAnalysis("u1") /\ InitAppIdle
    /\ \E d \in {None} \cup {NewProfile("u1", p) :
                             p \in {q \in ProfileInputs : q.education_level \in EducationLevels}} :
           profiles = [u \in Users |-> IF u = "u1" THEN d ELSE None]
    /\ apiCalls = {}
    /\ apiLog = <<>>
    /\ InitViews

SpecService == InitService /\ [][NextService]_vars

\* complete response sets with the free-text question answered
FullAnswers(u) ==
    {rs \in ResponseSets(GenerateQuestions(u)) :
        \A i \in 1..Len(GenerateQuestions(u)) : rs[GenerateQuestions(u)[i].id] # Undefined}

\* the dashboard against the backend, users submitting
NextDash ==
    \/ \E e \in Endpoints : DashBackend(e)
    \/ \E lost \in SUBSET Endpoints : DashFetchSettle(lost)
    \/ StartQuestionnaire
    \/ handleQuestionnaireComplete
    \/ \E u \in Users : \E rs \in FullAnswers(u) : SubmitHandled(u, rs)

\* the dashboard mounts for a user who has registered, or for one the backend
\* does not know
InitDash ==
    /\ InitBackend
    /\ InitQuestionnaire("u1")
    /\ InitChat
    /\ InitRecIdle
    /\ \E d \in {None} \cup {NewProfile("u1", p) :
                             p \in {q \in ProfileInputs : q.education_level \in EducationLevels}} :
           profiles = [u \in Users |-> IF u = "u1" THEN d ELSE None]
    /\ apiCalls = {}
    /\ apiLog = <<>>
    /\ InitDashboard("u1")
    /\ InitCareerAnalysis("u1")
    /\ InitAppIdle
    /\ InitViews

SpecDash == InitDash /\ [][NextDash]_vars

\* the career analysis page against the backend, users submitting
NextCA ==
    \/ \E type \in AnalysisTypes : SelectAnalysis(type)
    \/ runAnalysis
    \/ \E lost \in BOOLEAN : AnalysisSettle(lost)
    \/ \E call \in caRecCalls : \E lost \in BOOLEAN : RecsSettle(call, lost)
    \/ \E u \in Users : \E rs \in FullAnswers(u) : SubmitHandled(u, rs)

SpecCA == Init /\ [][NextCA]_vars

\* the App opened by a first-time or a returning visitor, at any address
InitAppVisit ==
    /\ InitBackend /\ InitQuestionnaire("u1") /\ InitChat /\ InitRecIdle
    /\ InitApi /\ InitDashboard("u1") /\ InitCareerAnalysis("u1")
    /\ \E saved \in {Null, <<>>, SavedId} : \E path \in Paths : InitApp(saved, path)
    /\ InitViews

NextApp ==
    \/ AppMount
    \/ handleUserLogout
    \/ \E path \in Paths : Navigate(path)
    \/ Reload

SpecApp == InitAppVisit /\ [][NextApp]_vars

\* the login-based App opened by a new or a returning visitor
InitLoginAppVisit ==
    /\ InitBackend /\ InitQuestionnaire("u1") /\ InitChat /\ InitRecIdle
    /\ InitApi /\ InitDashboard("u1") /\ InitCareerAnalysis("u1")
    /\ \E saved \in {Null, SavedId} : InitApp(saved, "/")
    /\ InitViews

NextLoginApp ==
    \/ LoginAppMount
    \/ \E b \in BOOLEAN : setIsLogin(b)
    \/ \E value \in LoginNames : LoginInputChange("name", value)
    \/ \E value \in LoginEmails : LoginInputChange("email", value)
    \/ \E value \in LoginEducation : LoginInputChange("educationLevel", value)
    \/ handleSubmitLogin
    \/ handleSubmitRegister
    \/ \E u \in Users : \E lost \in BOOLEAN : RegisterSettle(u, lost)
    \/ LoginAppLogout
    \/ LoginAppReload

SpecLoginApp == InitLoginAppVisit /\ [][NextLoginApp]_vars

SpecRec == InitRecommend /\ [][NextRec]_vars

\* the questionnaire component against the backend
NextQ ==
    \/ \E u \in Users : ChangeUser(u)
    \/ TryAgain
    \/ \E u \in Users : LoadResolve(u)
    \/ \E u \in Users : LoadReject(u)
    \/ \E q \in QuestionBank : \E v \in InputChoices(q) : handleResponse(v)
    \/ goToNext
    \/ goToPrevious
    \/ submitQuestionnaire
    \/ \E i \in 1..MaxReqs : Handle(i)
    \/ \E i \in 1..MaxReqs : Persist(i)
    \/ SubmitSettle

SpecQ == InitQ /\ [][NextQ]_vars

\* the questionnaire with its one load: the userId prop stays and Try Again
\* is not used
NextQOneLoad ==
    \/ \E u \in Users : LoadResolve(u)
    \/ \E u \in Users : LoadReject(u)
    \/ \E q \in QuestionBank : \E v \in InputChoices(q) : handleResponse(v)
    \/ goToNext
    \/ goToPrevious
    \/ submitQuestionnaire
    \/ \E i \in 1..MaxReqs : Handle(i)
    \/ \E i \in 1..MaxReqs : Persist(i)
    \/ SubmitSettle

SpecQOneLoad == InitQ /\ [][NextQOneLoad]_vars

\* clients posting to the submit endpoint, the requests handled concurrently
NextBackend ==
    \/ \E u \in Users : \E rs \in ResponseSets(GenerateQuestions(u)) : Post(u, rs)
    \/ \E i \in 1..MaxReqs : Handle(i)
    \/ \E i \in 1..MaxReqs : Persist(i)

SpecBackend == Init /\ [][NextBackend]_vars

\* the analytics view against the analytics endpoints
NextAnalytics ==
    \/ \E tab \in Tabs : SetActiveTab(tab)
    \/ \E industry \in Industries : SetSelectedIndustry(industry)
    \/ \E role \in Roles : SetSelectedRole(role)
    \/ \E query \in SkillQueries : SetSkillsQuery(query)
    \/ loadCareerTrends
    \/ loadSkillsAnalysis
    \/ loadMarketPredictions
    \/ \E c \in anCalls :
          \E reply \in {AnalyticsReply(c), InternalServerError, UpstreamServiceError,
                        [kind |-> "lost"]} : AnalyticsSettle(c, reply)

SpecAnalytics == Init /\ [][NextAnalytics]_vars

\* the settings view
NextSettings ==
    \/ confirmReset
    \/ cancelReset
    \/ handleResetData
    \/ \E o \in ResetOutcomes : ResetSettle(o)
    \/ ReloadAfterReset

SpecSettings == Init /\ [][NextSettings]_vars

\* the profile view of a user who has registered, or of one the backend does
\* not know
NextProfile ==
    \/ \E lost \in BOOLEAN : ProfileFetchSettle(lost)
    \/ StartEdit
    \/ \E v \in NameInputs : handleInputChange("name", v)
    \/ \E v \in AgeInputs : handleInputChange("age", v)
    \/ \E v \in EducationInputs : handleInputChange("education_level", v)
    \/ handleSave
    \/ \E lost \in BOOLEAN : SaveSettle(lost)
    \/ handleCancel

SpecProfile == InitDash /\ [][NextProfile]_vars

\* respondents answering the two openness questions, the requests handled
\* concurrently
NextScore ==
    \/ \E rs \in ScenarioAnswers : PostScenario(rs)
    \/ \E i \in 1..MaxReqs : Handle(i)
    \/ \E i \in 1..MaxReqs : Persist(i)

SpecScore == Init /\ [][NextScore]_vars

----------------------------------------------------------------------------
(* Properties *)

\* a required question of the request's sequence has no matching response
HasUnanswered(r) ==
    \E k \in 1..Len(r.questions) :
        r.questions[k].required /\ r.responses[r.questions[k].id] = Undefined

UnansweredIds(r) ==
    {r.questions[k].id : k \in {j \in 1..Len(r.questions) :
        r.questions[j].required /\ r.responses[r.questions[j].id] = Undefined}}

\* C1: a submission in which a required question has no matching response
\* is answered with a ValidationError (422) naming a missing question id; no
\* AssessmentResult is computed for it, stored from it, or returned to the
\* component that posted it.
C1_IncompleteSubmissionRejected ==
    /\ \A i \in 1..Len(srvReqs) :
          HasUnanswered(srvReqs[i]) =>
              /\ srvReqs[i].result = None
              /\ i \notin Range(writeLog)
              /\ \A u \in Users : store[u] # None => store[u].created # i
              /\ srvReqs[i].stage = "done" =>
                    /\ srvReqs[i].reply.kind = "error"
                    /\ srvReqs[i].reply.status = 422
                    /\ \E id \in UnansweredIds(srvReqs[i]) :
                          srvReqs[i].reply.detail = <<"missing response for question", id>>
    /\ \A k \in 1..Len(submitLog) :
          HasUnanswered(srvReqs[submitLog[k].req]) =>
              /\ submitLog[k].outcome.kind = "rejected"
              /\ completed = None

\* the component posted a sequence with an unanswered required question, the
\* backend answered it and the call has settled
C1_Witness ==
    \E k \in 1..Len(submitLog) :
        /\ HasUnanswered(srvReqs[submitLog[k].req])
        /\ srvReqs[submitLog[k].req].stage = "done"
        /\ submitLog[k].outcome.detail # NoResponse

\* C2: every AssessmentResult of a submission that covers its required
\* questions has each trait score within [0, 1].
C2_TraitScoresInUnitRange ==
    \A i \in 1..Len(srvReqs) :
        srvReqs[i].result # None =>
            \A t \in Traits :
                /\ srvReqs[i].result.traits[t] >= 0
                /\ srvReqs[i].result.traits[t] <= Scale

\* a covering submission was scored, with the top of a scale among its answers
C2_Witness ==
    \E i \in 1..Len(srvReqs) :
        /\ srvReqs[i].result # None
        /\ ~HasUnanswered(srvReqs[i])
        /\ \E k \in 1..Len(srvReqs[i].questions) :
              LET q == srvReqs[i].questions[k]
              IN q.question_type = "scale" /\ srvReqs[i].responses[q.id] = Num(q.scale_max)

\* the complete result of submission i, from its own inputs alone
ResultOf(i) ==
    AssessmentResult(srvReqs[i].user, srvReqs[i].questions, srvReqs[i].responses, i)

\* the writes of user u, in the order they happened
RECURSIVE WritesOf(_, _)
WritesOf(u, log) ==
    IF log = <<>> THEN <<>>
    ELSE IF srvReqs[Head(log)].user = u
         THEN <<Head(log)>> \o WritesOf(u, Tail(log))
         ELSE WritesOf(u, Tail(log))

\* C3: the stored AssessmentResult of a user is the complete result of the
\* submission that wrote last, also when submissions overlap; before any
\* write nothing is stored.
C3_StoredIsLastWriteWhole ==
    \A u \in Users :
        LET w == WritesOf(u, writeLog)
        IN IF w = <<>> THEN store[u] = None
           ELSE store[u] = ResultOf(w[Len(w)])

\* two submissions of one user overlapped (both were scored before either was
\* written) and the later request wrote first
C3_Witness ==
    /\ Len(writeLog) = 2
    /\ writeLog[1] > writeLog[2]
    /\ srvReqs[1].user = srvReqs[2].user
    /\ srvReqs[1].seen = None /\ srvReqs[2].seen = None
    /\ ResultOf(1).narrative # ResultOf(2).narrative

\* C4: a call that the backend answered with a validation error (422) or a
\* not-found error (404) fails for its caller, with the backend's detail text.
C4_BackendErrorsSurfaceVerbatim ==
    \A k \in 1..Len(apiLog) :
        (apiLog[k].reply.kind = "error" /\ apiLog[k].reply.status \in {404, 422}) =>
            /\ apiLog[k].outcome.kind = "rejected"
            /\ apiLog[k].outcome.detail = apiLog[k].reply.detail

\* C5: when the counseling call's timeout expires or the call fails, the
\* settling of handleSendMessage sets the chat's error and appends no
\* assistant message.
C5_ExpiredChatShowsError ==
    [][(/\ Len(chatLog') > Len(chatLog)
        /\ chatLog'[Len(chatLog')].reply # "ok")
       => (chatError' # Null /\ messages' = messages)]_vars

\* the submission of the component has failed
SubmitHasFailed ==
    /\ submitLog # <<>>
    /\ submitLog[Len(submitLog)].outcome.kind = "rejected"

\* C6: after a failed submission the questionnaire recovers through Try Again:
\* when the reload it starts succeeds, the questions are displayed again (and
\* with them the submit action can be enabled for a second submission).
C6_RetryShowsQuestionsAgain ==
    [][(/\ SubmitHasFailed
        /\ \E u \in Users : LoadResolve(u)
        /\ loadCalls' = [u \in Users |-> 0])
       => QuestionsDisplayed']_vars

\* what stands behind it: once a submission has failed, the component never
\* again displays the questions, so the submit action is never enabled again
C6_NoWayBack == SubmitHasFailed => ~QuestionsDisplayed /\ ~SubmitEnabled

\* a response of the request is tagged with the trait
Tagged(r, trait) ==
    \E k \in 1..Len(r.questions) :
        /\ r.responses[r.questions[k].id] # Undefined
        /\ TraitWeight(r.questions[k].id, trait) > 0

\* C7: when the dashboard has loaded for a user without a stored
\* AssessmentResult, the recommendations it got carry requires_questionnaire
\* (not a list of recommendations) and the preview shows Questionnaire Required.
C7_NoAssessmentAsksForQuestionnaire ==
    (DashboardShown /\ store[dashUser] = None) =>
        /\ dashData.recommendations # None
        /\ Truthy(dashData.recommendations, "requires_questionnaire")
        /\ dashData.recommendations.recommendations = <<>>
        /\ RecommendationsCard = "Questionnaire Required"

\* C8: every AssessmentResult has a key for every trait of the fixed set, and
\* a trait that no response of the submission tags scores exactly 0.5.
C8_UntaggedTraitIsNeutral ==
    /\ \A i \in 1..Len(srvReqs) :
          srvReqs[i].result # None =>
              /\ DOMAIN srvReqs[i].result.traits = Traits
              /\ \A t \in Traits :
                    ~Tagged(srvReqs[i], t) => 2 * srvReqs[i].result.traits[t] = Scale
    /\ \A u \in Users : store[u] # None => DOMAIN store[u].traits = Traits

\* a stored result in which a tagged trait was scored off the midpoint while
\* untagged traits are present
C8_Witness ==
    \E i \in 1..Len(srvReqs) :
        /\ srvReqs[i].result # None
        /\ store[srvReqs[i].user] = srvReqs[i].result
        /\ \E t \in Traits : Tagged(srvReqs[i], t) /\ srvReqs[i].result.traits[t] > Neutral
        /\ \E t \in Traits : ~Tagged(srvReqs[i], t)

\* the demand weight the reference data declares for a title
DemandOf(title) == (CHOOSE c \in CareerPool : c.title = title).demand

\* C9: the composer's list is sorted by match score descending; among equal
\* scores the higher demand weight comes first; among entries equal in both
\* the lexically smaller title comes first.
C9_RecommendationsSorted ==
    recOut # None =>
        \A i, j \in 1..Len(recOut.recommendations) :
            i < j =>
                LET a == recOut.recommendations[i]
                    b == recOut.recommendations[j]
                IN \/ a.match_score > b.match_score
                   \/ /\ a.match_score = b.match_score
                      /\ DemandOf(a.title) > DemandOf(b.title)
                   \/ /\ a.match_score = b.match_score
                      /\ DemandOf(a.title) = DemandOf(b.title)
                      /\ LexLess(a.title, b.title)

\* a list of three in which each tie-break decided a pair: equal scores with
\* different demand weights, and equal scores and weights with different titles
C9_Witness ==
    /\ recOut # None
    /\ Len(recOut.recommendations) = 3
    /\ recOut.recommendations[1].match_score = recOut.recommendations[3].match_score
    /\ DemandOf(recOut.recommendations[1].title) > DemandOf(recOut.recommendations[2].title)
    /\ DemandOf(recOut.recommendations[2].title) = DemandOf(recOut.recommendations[3].title)
    /\ recTable[1].title = recOut.recommendations[3].title

\* C11: for a valid AssessmentResult the composer returns a list (no error),
\* of at most N entries (N = 5 by default), each made from an entry of the
\* reference table; for an empty table the list is empty.
C11_ComposerNeverFailsAtMostN ==
    recOut # None =>
        /\ recOut.kind = "recommendations"
        /\ Len(recOut.recommendations) <= recN
        /\ Len(recOut.recommendations) <= Len(recTable)
        /\ \A i \in 1..Len(recOut.recommendations) :
              \E k \in 1..Len(recTable) :
                  recOut.recommendations[i].title = recTable[k].title
        /\ recTable = <<>> => recOut.recommendations = <<>>

\* the composer has answered for an empty reference table
C11_Witness ==
    /\ recOut # None
    /\ recAssessment \in Assessments
    /\ recTable = <<>>
    /\ recOut.recommendations = <<>>

\* the composer has cut a table longer than the default N to the first five
C11_CutAtDefault ==
    /\ recOut # None
    /\ recN = DefaultTopN
    /\ Len(recTable) > DefaultTopN
    /\ Len(recOut.recommendations) = DefaultTopN

C12_MockShown ==
    /\ Len(DisplayedMatches) = 2
    /\ DisplayedMatches[1].career_title = <<"Data Scientist">>
    /\ DisplayedMatches[1].percent = 87

\* C18: once the App's initialization has finished there is a current user,
\* and it is the currentUserId of localStorage.
C18_AlwaysACurrentUser ==
    ~appIsLoading =>
        /\ currentUser # Null
        /\ ~Falsy(currentUser)
        /\ currentUser = localStorage

\* the user has logged out and the page was loaded again since: the id in
\* use is a generated one, not the one the visitor came with
C18_Witness ==
    /\ ~appIsLoading
    /\ idsMade >= 2
    /\ currentUser = GeneratedId(idsMade)

\* C13: the response array submitQuestionnaire builds holds at most one entry
\* per question id, and the entry of a question holds the value most
\* recently given for it; a question never answered has no entry.
C13_OneResponsePerQuestion ==
    /\ \A i, j \in 1..Len(ResponseEntries) :
          ResponseEntries[i].question_id = ResponseEntries[j].question_id => i = j
    /\ \A id \in QIds :
          IF lastGiven[id] = Undefined
          THEN \A i \in 1..Len(ResponseEntries) : ResponseEntries[i].question_id # id
          ELSE \E i \in 1..Len(ResponseEntries) :
                  /\ ResponseEntries[i].question_id = id
                  /\ ResponseEntries[i].response = lastGiven[id]

\* a question was answered again with another value than the one already
\* posted for it, and the text question was cleared after it had been typed
C13_Witness ==
    /\ submitCall # 0
    /\ srvReqs[submitCall].responses["q1"] # Undefined
    /\ lastGiven["q1"] # srvReqs[submitCall].responses["q1"]
    /\ srvReqs[submitCall].responses["q3"] = Str("free text")
    /\ lastGiven["q3"] = Str("")
    /\ Len(ResponseEntries) = 3

\* C14: the question sequence changes only when a generate call is answered
\* (never by answering, navigating or submitting), and the questions in the
\* body of a submission are the sequence the component holds, which is a
\* sequence as a generate call returned it, in the same order.
C14_QuestionsImmutable ==
    [][/\ questions' # questions => \E u \in Users : LoadResolve(u)
       /\ (submitCall = 0 /\ submitCall' # 0) =>
              /\ srvReqs'[submitCall'].questions = questions
              /\ questions' = questions
              /\ \E u \in Users : questions = GenerateQuestions(u)]_vars

\* after answering and navigating to the last question a submission was
\* posted with the sequence generated for the user, and has settled
C14_Witness ==
    /\ submitLog # <<>>
    /\ currentQuestionIndex = Len(questions) - 1
    /\ srvReqs[submitLog[1].req].questions = GenerateQuestions(userId)
    /\ \A k \in 1..Len(questions) : lastGiven[questions[k].id] # Undefined

\* C15: whenever the render reaches the question card, currentQuestionIndex
\* is within [0, questions.length - 1], after any sequence of loads, reloads
\* (Try Again, a userId change), answers and navigation.
C15_IndexWithinQuestions ==
    RenderReachesCard =>
        /\ currentQuestionIndex >= 0
        /\ currentQuestionIndex <= Len(questions) - 1

\* the index starts at 0 and a navigation step moves it by exactly one
C15_NavigationByOne ==
    [][currentQuestionIndex' # currentQuestionIndex =>
          \/ goToNext /\ currentQuestionIndex' = currentQuestionIndex + 1
          \/ goToPrevious /\ currentQuestionIndex' = currentQuestionIndex - 1]_vars

\* the requests of the questionnaire that are on their way
InFlight ==
    SumOver(Users, loadCalls) + (IF submitCall # 0 THEN 1 ELSE 0)

MockData(e) ==
    CASE e.op = "healthCheck" -> mockHealth
      [] e.op = "getUserProfile" -> mockProfile
      [] e.op = "updateUserProfile" ->
            [message |-> <<"Profile updated successfully (mock)">>, status |-> "success"]
      [] e.op = "performCareerAnalysis" -> mockAnalysis(e.data)
      [] e.op = "chatWithCounselor" -> MockChatResponse
      [] e.op = "getCareerRecommendations" -> mockRecommendations
      [] e.op = "getSystemMetrics" -> mockMetrics
      [] OTHER -> [conversations |-> mockConversations]

C17_BackendFirst ==
    \E i \in 1..Len(apiLog) :
        /\ apiLog[i].op = "getCareerRecommendations"
        /\ apiLog[i].reply.kind = "ok"
        /\ apiLog[i].outcome.value # mockRecommendations

\* the scenario's submission: q1 "Strongly Agree", q2 the mark 8 of 1..10
IsScenario(r) ==
    /\ r.questions = <<Q1, Q2, Q3>>
    /\ r.responses["q1"] = Str("Strongly Agree")
    /\ r.responses["q2"] = Num(8)

Scored(r) == r.stage = "done" /\ r.reply.kind = "ok"

Part(d, e) ==
    CASE e = "profile" -> d.userProfile
      [] e = "conversations" -> d.recentConversations
      [] e = "metrics" -> d.systemMetrics
      [] e = "recommendations" -> d.recommendations
      [] OTHER -> d.questionnaireStatus

Unavailable(e) == IF e = "conversations" THEN <<>> ELSE None

\* what the backend returned for a request of the load
Returned(e) ==
    IF e = "conversations" THEN dashReplies[e].data.conversations
    ELSE dashReplies[e].data

\* C20: whichever requests of the load fail, the dashboard leaves the loading
\* state, each failed part is unavailable (null, or [] for the conversations)
\* and each successful part is the value the backend returned
C20_FailedPartsShownEmpty ==
    [][\A lost \in SUBSET Endpoints :
          DashFetchSettle(lost) =>
              /\ ~dashIsLoading'
              /\ \A e \in Endpoints :
                    IF e \in lost \/ dashReplies[e].kind # "ok"
                    THEN Part(dashData', e) = Unavailable(e)
                    ELSE Part(dashData', e) = Returned(e)]_vars

\* the parts of C20 that hold: loading ends with the settling, a successful
\* part is the returned value, and a failed status request leaves null
C20_SuccessfulPartsShown ==
    [][\A lost \in SUBSET Endpoints :
          DashFetchSettle(lost) =>
              /\ ~dashIsLoading' /\ dashError' = Null
              /\ \A e \in Endpoints \ lost :
                    dashReplies[e].kind = "ok" => Part(dashData', e) = Returned(e)
              /\ "status" \in lost => dashData'.questionnaireStatus = None]_vars

\* renderResults: the section the results are rendered as, chosen by the
\* selected analysis type
RenderedAs == IF caResults = None THEN "none" ELSE selectedAnalysis

\* C21: the results on the screen are rendered as the analysis type that was
\* posted in the request that produced them, whatever type is selected since
C21_ResultsRenderedAsPosted ==
    caResults # None => RenderedAs = caResults.analysis_type

\* the part of C21 that holds: Run Analysis posts the selected analysis type
C21_PostsSelectedType ==
    [][runAnalysis => caCall' = [user_id |-> caUser, analysis_type |-> selectedAnalysis]]_vars

NonEmpty(v) == v # Undefined /\ v # Str("")

\* C22: with one load, every question before the current one has a response
\* that is neither undefined nor '', and the submit button is enabled only
\* when every question of the sequence has such a response
C22_PassedQuestionsAnswered ==
    /\ \A k \in 1..Len(questions) :
          k <= currentQuestionIndex => NonEmpty(responses[questions[k].id])
    /\ SubmitEnabled =>
          \A k \in 1..Len(questions) : NonEmpty(responses[questions[k].id])

\* the free-text question was answered and passed, the next one answered, and
\* after Previous the text was cleared
C22_Witness ==
    /\ QuestionsDisplayed
    /\ currentQuestionIndex = 0
    /\ currentQuestion.question_type = "text"
    /\ responses[currentQuestion.id] = Str("")
    /\ NonEmpty(responses[questions[2].id])

\* every question answered, the last one shown: the submit button is enabled
C22_SubmitEnabled ==
    /\ SubmitEnabled
    /\ Len(questions) = 3

\* C23: every assistant message of the list comes after the user message it
\* answers: no assistant reply is in the list without its user message
C23_ReplyAfterItsUserMessage ==
    \A i \in 1..Len(messages) :
        messages[i].type = "assistant" =>
            \E j \in 1..(i - 1) :
                /\ messages[j].type = "user"
                /\ messages[j].id[1] = messages[i].id[1]

\* the numbers of the chat requests on their way
CallNumbers(calls) == {c.n : c \in calls}

\* C24: at most one chat request is in flight; a request is sent and a user
\* message appended only from a non-blank input while isLoading is false; and
\* isLoading is false once a request has settled, whatever its outcome
C24_OneChatRequestAtATime ==
    [][/\ Cardinality(chatCalls') <= 1
       /\ (CallNumbers(chatCalls') \ CallNumbers(chatCalls) # {} \/ sendCount' # sendCount) =>
             /\ Trim(inputMessage) # <<>>
             /\ ~chatIsLoading
             /\ chatIsLoading'
             /\ chatCalls = {}
       /\ (Trim(inputMessage) = <<>> \/ chatIsLoading) =>
             (handleSendMessage => messages' = messages /\ chatCalls' = chatCalls)
       /\ CallNumbers(chatCalls) \ CallNumbers(chatCalls') # {} =>
             ~chatIsLoading' /\ chatCalls' = {}]_vars

\* a request failed and settled, and a second one is on its way
C24_Witness ==
    /\ Len(chatLog) = 1
    /\ chatLog[1].reply # "ok"
    /\ Cardinality(chatCalls) = 1
    /\ chatIsLoading

\* C25: whenever the profile view is not in edit mode, the form content is the
\* saved profile
C25_FormEqualsProfileUnlessEditing ==
    (ProfileShown /\ ~isEditing) => editedProfile = upProfile

\* the part of C25 that holds: Cancel restores the form to the saved profile
C25_CancelRestores ==
    [][handleCancel => (editedProfile' = upProfile' /\ upProfile' = upProfile)]_vars

\* C26: the loading flag is true whenever an analytics request is in flight
C26_LoadingWhileInFlight ==
    anCalls # {} => anIsLoading

\* the trends requests made have all settled, each successfully
TrendsAllSettledOk ==
    /\ \A c \in anCalls : c.kind # "trends"
    /\ \A i \in 1..Len(anLog) : anLog[i].kind = "trends" => anLog[i].outcome = "resolved"

\* C27: once all trends requests have settled successfully, the trends data
\* shown is the response for the selected industry and role
C27_TrendsForCurrentSelection ==
    (/\ activeTab = "trends" /\ selectedIndustry # "" /\ selectedRole # ""
     /\ trendsData # None
     /\ TrendsAllSettledOk) =>
        /\ trendsData.industry = selectedIndustry
        /\ trendsData.role = selectedRole

\* C28: a reset request is sent only from the open confirmation dialog by its
\* confirm button, Cancel sends none; when a request settles the dialog
\* closes and isResetting is false; resetStatus is 'success' only after a
\* response with status 'reset_complete' and 'error' only after a thrown call
C28_ResetOnlyConfirmed ==
    [][/\ resetCount' # resetCount => showConfirmDialog /\ showConfirmDialog'
       /\ (showConfirmDialog /\ ~showConfirmDialog' /\ resetLog' = resetLog)
             => resetCount' = resetCount
       /\ resetLog' # resetLog => ~showConfirmDialog' /\ ~isResetting' /\ ~resetCall'
       /\ resetStatus' = "success" =>
             /\ resetLog' # <<>>
             /\ resetLog'[Len(resetLog')].outcome = Resolved([status |-> "reset_complete"])
       /\ resetStatus' = "error" =>
             /\ resetLog' # <<>>
             /\ resetLog'[Len(resetLog')].outcome.kind = "rejected"]_vars

\* each outcome has been seen: a success, a response with another status
\* left idle, and an error, the dialog closed after each
C28_Witness ==
    /\ Len(resetLog) = 3
    /\ resetLog[1].outcome.kind = "rejected"
    /\ resetLog[2].outcome = Resolved([status |-> "reset_failed"])
    /\ resetLog[3].outcome = Resolved([status |-> "reset_complete"])
    /\ resetStatus = "success" /\ ~showConfirmDialog /\ ~isResetting

\* C29: once the login-based App is initialized, currentUser is the
\* currentUserId of localStorage (null exactly when the key is absent), and
\* the routed application is rendered exactly while currentUser is non-null,
\* the Login screen otherwise
C29_CurrentUserIsSavedUser ==
    ~appIsLoading =>
        /\ currentUser = localStorage
        /\ LoginAppRenders = (IF currentUser # Null THEN "Router" ELSE "Login")

\* a visitor registered as u1, logged out and signed in with an email
C29_Witness ==
    /\ ~appIsLoading
    /\ profiles["u1"] # None
    /\ currentUser = <<"ann">> /\ localStorage = <<"ann">>
    /\ LoginAppRenders = "Router"

\* C30: the dashboard never shows the 'Career Profile Complete!' banner
\* together with the 'Questionnaire Required' card, and it shows exactly one
\* of the two banners, whatever the outcomes of the requests
C30_NoContradictoryQuestionnaireState ==
    DashboardShown =>
        ~(questionnaireCompleted /\ RecommendationsCard = "Questionnaire Required")

====
